---------------------------- MODULE Spec2Model ----------------------------
(***************************************************************************)
(* A model of FortifAI.  The backend: the S3Service read path with its     *)
(* 10-second cache and temporary files (backend/src/services/s3Service.ts),*)
(* the asset-graph builder (transformAssetData / createLinks /             *)
(* getGraphData) and the routes over it (backend/src/index.ts), and the    *)
(* EC2 relocation workflow (EnvAction.js) behind POST /api/fortifai.  The  *)
(* front end: the proxy route (pages/api/proxy/[...path].ts) and the       *)
(* browser's ApiService (services/api.ts).                                 *)
(*                                                                         *)
(* Each subsystem has its group of variables.  Each specification runs one *)
(* subsystem and leaves the variables of the others at their initial       *)
(* values:                                                                 *)
(*   Spec        overlapping readParquetFile calls, the cache, the clock   *)
(*   RefreshSpec Spec with one POST /api/graph/refresh request followed    *)
(*   GraphSpec   getGraphData over every bounded directory / table content *)
(*   RelocSpec   overlapping relocateEC2BetweenVPCs requests and EC2       *)
(*   RelocLive   RelocSpec with the fairness of the event loop and of EC2  *)
(*   IgnoreSpec  POST /api/fortifai/ignore                                 *)
(*   ProxySpec   requests to the proxy route                               *)
(*   ApiSpec     ApiService.getGraphData and refreshGraphData              *)
(*   AuthSpec    overlapping ApiService.fetchWithAuth calls                *)
(***************************************************************************)
EXTENDS Integers, Sequences, FiniteSets, TLC

\* JavaScript's undefined, as a value of the string universe.
Undef == "<undefined>"

(***************************************************************************)
(* Bounds of the model.                                                    *)
(***************************************************************************)
NumCalls == 2      \* overlapping readParquetFile calls
MaxTicks == 2      \* clock advances per behaviour
MaxDir == 3        \* entries of the asset directory
MaxRecs == 2       \* records of one asset table
MaxNodes == 3      \* asset records read by one getGraphData call
NumReqs == 2       \* overlapping POST /api/fortifai requests
NumGraphCalls == 2 \* calls of ApiService.getGraphData made by the page
MaxRuns == 3       \* fetchGraphData runs per behaviour
MaxTypes == 1      \* asset types a fetchGraphData run goes through
MaxRounds == 1     \* 401/403 answers to one fetchWithAuth call
MaxApiTicks == 2   \* advances of the browser's clock per behaviour
NumClients == 2    \* overlapping fetchWithAuth calls made by the page

(***************************************************************************)
(* S3Service: cache, clock, temporary files.                               *)
(***************************************************************************)
VARIABLES
  clock,      \* Date.now(), in ms
  ticks,      \* number of clock advances so far
  cache,      \* this.cache: key -> [present, data, timestamp]
  storedAt,   \* history: the clock value of the cache.set that stored
              \* cache[k], -1 while the cache holds no entry for k
  tmp,        \* the files of os.tmpdir(): file name -> [exists, data]
  calls,      \* the readParquetFile activations: call -> record
  refresh     \* history of one POST /api/graph/refresh request: which
              \* downloads began before its clearCache, which reads are its
              \* own, and where the data of a result was downloaded

cacheVars == <<clock, ticks, cache, storedAt, tmp, calls, refresh>>

VARIABLES
  gpc,        \* getGraphData: "start", "loop", "done" or "rejected"
  gerr,       \* the message of the error getGraphData rejected with
  dirLen,     \* entries of the asset directory
  gindex,     \* entries of the directory the loop has processed
  allNodes,   \* allNodes of getGraphData
  okNodes,    \* history: the transformed records of the reads that
              \* succeeded, in the order of the directory
  nFailed,    \* history: the table reads that failed
  graph       \* the value getGraphData resolved with

graphVars == <<gpc, gerr, dirLen, gindex, allNodes, okNodes, nFailed, graph>>

VARIABLES
  req,        \* the POST /api/fortifai requests and their position in
              \* relocateEC2BetweenVPCs
  ec2         \* the EC2 account the commands act on

relocVars == <<req, ec2>>

VARIABLES
  ig,         \* a request to POST /api/fortifai/ignore
  isIgnored   \* the IsIgnored column of the EC2 table in storage:
              \* instance -> "true", "false" or undefined

ignoreVars == <<ig, isIgnored>>

VARIABLES
  px          \* a request to the /api/proxy/[...path] route of the front end

proxyVars == <<px>>

VARIABLES
  apiClock,         \* Date.now() of the browser, in ms
  apiTicks,         \* number of advances of apiClock so far
  token,            \* this.token of the ApiService
  graphDataCache,   \* this.graphDataCache
  lastFetchTime,    \* this.lastFetchTime
  fetchInProgress,  \* this.fetchInProgress
  fetchPromise,     \* this.fetchPromise: 0 for null, or the fetchGraphData
                    \* run whose promise it holds
  gc,               \* the getGraphData activations: caller -> record
  runs,             \* the fetchGraphData activations: run -> record
  fw,               \* the fetchWithAuth activations: owner -> record
  isAuthenticating  \* this.isAuthenticating of the ApiService that has
                    \* this field (api.ts:96, unnamed/part_008)

apiVars == <<apiClock, apiTicks, token, graphDataCache, lastFetchTime,
             fetchInProgress, fetchPromise, gc, runs, fw, isAuthenticating>>

\* The variables of the front end (the Next.js application).
frontVars == <<proxyVars, apiVars>>

backVars == <<cacheVars, graphVars, relocVars, ignoreVars>>

CACHE_TTL == 10000

\* The clock advances by one of these amounts (ms) between two steps.
TickSteps == {4999, 5000}

\* Object keys of the bucket, as their '/'-separated segments.
Keys == { <<"Assets", "EC2.parquet">>,
          <<"Backup", "EC2.parquet">>,
          <<"Assets", "VPC.parquet">> }

Calls == 1..NumCalls

NoKey  == <<>>
NoData == <<>>

\* The records a Parquet object of the bucket parses to: every key holds its
\* own record set, named after the key.
StoredRecords(key) == key

\* key.split('/').pop() || 'temp.parquet'
FileName(key) ==
  LET last == key[Len(key)]
  IN  IF last = "" THEN "temp.parquet" ELSE last

FileNames == { FileName(k) : k \in Keys }

NoFile == [exists |-> FALSE, data |-> NoData]
NoFd   == [st |-> "none", data |-> NoData]
NoEntry == [present |-> FALSE, data |-> NoData, timestamp |-> 0]

IdleCall ==
  [pc |-> "idle", key |-> NoKey, fd |-> NoFd, records |-> NoData,
   result |-> NoData, err |-> "", hit |-> FALSE, age |-> -1]

\* No refresh was requested.  cleared: the route has run clearCache; old[c]:
\* the download of call c began before that; entryOld[k]: the entry of k
\* was stored by such a download; mine[c]: call c is a read of the refresh
\* request's getGraphData; servedOld[c]: the result of call c comes from a
\* download that began before the clearCache.
NoRefresh ==
  [cleared |-> FALSE,
   old |-> [c \in Calls |-> FALSE],
   entryOld |-> [k \in Keys |-> FALSE],
   mine |-> [c \in Calls |-> FALSE],
   servedOld |-> [c \in Calls |-> FALSE]]

CacheInit ==
  /\ clock = 0
  /\ ticks = 0
  /\ cache = [k \in Keys |-> NoEntry]
  /\ storedAt = [k \in Keys |-> -1]
  /\ tmp = [f \in FileNames |-> NoFile]
  /\ calls = [c \in Calls |-> IdleCall]
  /\ refresh = NoRefresh

isCacheValid_Inclusive(entry) ==
  IF ~entry.present THEN FALSE
  ELSE clock - entry.timestamp <= CACHE_TTL

\* if (!entry) return false; return Date.now() - entry.timestamp < this.CACHE_TTL
isCacheValid(entry) ==
  IF ~entry.present THEN FALSE
  ELSE clock - entry.timestamp < CACHE_TTL

\* readParquetFile up to its first await: the cache check.  A hit returns
\* cachedEntry.data and touches nothing; a miss goes on to the download.
\* History field of the call: age is the time since the cache.set that stored
\* the entry found (-1: no entry), kept while the outcome of the check is
\* visible (the hit's result, the miss's pending download).
ReadStart(c, k) ==
  /\ calls[c].pc = "idle"
  /\ LET e == cache[k]
         age == IF storedAt[k] >= 0 THEN clock - storedAt[k] ELSE -1
     IN  IF e.present /\ isCacheValid(e)
         THEN calls' = [calls EXCEPT ![c] =
                 [IdleCall EXCEPT !.pc = "done", !.key = k, !.result = e.data,
                                  !.hit = TRUE, !.age = age]]
         ELSE calls' = [calls EXCEPT ![c] =
                 [IdleCall EXCEPT !.pc = "fetching", !.key = k, !.age = age]]
  /\ UNCHANGED <<clock, ticks, cache, storedAt, tmp>>
  /\ UNCHANGED <<graphVars, relocVars, ignoreVars, frontVars>>

\* getSignedUrl / fetch / arrayBuffer resolved; then, synchronously,
\* fs.writeFileSync(tempPath, fileBuffer): an existing file is truncated and
\* rewritten in place (readers holding it open see the new bytes), a missing
\* one is created.
FetchDone(c) ==
  /\ calls[c].pc = "fetching"
  /\ LET f == FileName(calls[c].key)
     IN  tmp' = [tmp EXCEPT ![f] =
                   [exists |-> TRUE, data |-> StoredRecords(calls[c].key)]]
  /\ calls' = [calls EXCEPT ![c].pc = "opening", ![c].age = -1]
  /\ UNCHANGED <<clock, ticks, cache, storedAt>>
  /\ UNCHANGED <<graphVars, relocVars, ignoreVars, frontVars>>

\* The download fails (signing, network, !response.ok): the call rejects.
FetchFail(c) ==
  /\ calls[c].pc = "fetching"
  /\ calls' = [calls EXCEPT ![c].pc = "failed", ![c].err = "fetch", ![c].age = -1]
  /\ UNCHANGED <<clock, ticks, cache, storedAt, tmp>>
  /\ UNCHANGED <<graphVars, relocVars, ignoreVars, frontVars>>

\* parquet.ParquetReader.openFile(tempPath), asynchronous: it opens whatever
\* is at the path when it runs.  No file there: ENOENT, the finally block's
\* unlinkSync fails too (warned), and the call rejects.
OpenFile(c) ==
  /\ calls[c].pc = "opening"
  /\ LET f == FileName(calls[c].key)
     IN  IF tmp[f].exists
         THEN calls' = [calls EXCEPT ![c].pc = "reading",
                                     ![c].fd = [st |-> "attached", data |-> NoData]]
         ELSE calls' = [calls EXCEPT ![c].pc = "failed", ![c].err = "ENOENT",
                                     ![c].age = -1]
  /\ UNCHANGED <<clock, ticks, cache, storedAt, tmp>>
  /\ UNCHANGED <<graphVars, relocVars, ignoreVars, frontVars>>

\* What a descriptor reads: the file at the path while it is still linked,
\* the bytes the file had when it was unlinked afterwards.
FdData(c) ==
  IF calls[c].fd.st = "attached"
  THEN tmp[FileName(calls[c].key)].data
  ELSE calls[c].fd.data

\* The cursor loop: while (record = await cursor.next()) records.push(record);
\* then reader.close() is awaited.
ReadRecords(c) ==
  /\ calls[c].pc = "reading"
  /\ calls' = [calls EXCEPT ![c].pc = "closing",
                            ![c].records = FdData(c),
                            ![c].fd = NoFd]
  /\ UNCHANGED <<clock, ticks, cache, storedAt, tmp>>
  /\ UNCHANGED <<graphVars, relocVars, ignoreVars, frontVars>>

\* fs.unlinkSync(tempPath) of the finally block: the path is removed, whoever
\* wrote the file; descriptors still open on it keep its bytes.
Unlink(f, c) ==
  [d \in Calls |->
     IF d # c /\ calls[d].fd.st = "attached" /\ FileName(calls[d].key) = f
     THEN [calls[d] EXCEPT !.fd = [st |-> "detached", data |-> tmp[f].data]]
     ELSE calls[d]]

\* After reader.close(): this.cache.set(key, {data: records, timestamp:
\* Date.now()}); return records; finally unlinkSync(tempPath).
ReadFinish(c) ==
  /\ calls[c].pc = "closing"
  /\ LET k == calls[c].key
         f == FileName(k)
     IN  /\ cache' = [cache EXCEPT ![k] =
                  [present |-> TRUE, data |-> calls[c].records, timestamp |-> clock]]
         /\ storedAt' = [storedAt EXCEPT ![k] = clock]
         /\ tmp' = [tmp EXCEPT ![f] = NoFile]
         /\ calls' = [Unlink(f, c) EXCEPT ![c].pc = "done",
                                          ![c].result = calls[c].records,
                                          ![c].records = NoData]
  /\ UNCHANGED <<clock, ticks>>
  /\ UNCHANGED <<graphVars, relocVars, ignoreVars, frontVars>>

\* The caller has taken the call's outcome; the slot serves the next call.
ReadReturn(c) ==
  /\ calls[c].pc \in {"done", "failed"}
  /\ calls' = [calls EXCEPT ![c] = IdleCall]
  /\ UNCHANGED <<clock, ticks, cache, storedAt, tmp>>
  /\ UNCHANGED <<graphVars, relocVars, ignoreVars, frontVars>>

\* clearCache(): this.cache.clear()
ClearCache ==
  /\ \E k \in Keys : cache[k].present
  /\ cache' = [k \in Keys |-> NoEntry]
  /\ storedAt' = [k \in Keys |-> -1]
  /\ UNCHANGED <<clock, ticks, tmp, calls>>
  /\ UNCHANGED <<graphVars, relocVars, ignoreVars, frontVars>>

Tick ==
  /\ ticks < MaxTicks
  /\ \E d \in TickSteps : clock' = clock + d
  /\ ticks' = ticks + 1
  /\ UNCHANGED <<cache, storedAt, tmp, calls>>
  /\ UNCHANGED <<graphVars, relocVars, ignoreVars, frontVars>>

\* Reads, clearCache calls and the clock, with no refresh request followed.
CacheNext ==
  \/ \E c \in Calls, k \in Keys : ReadStart(c, k) /\ UNCHANGED refresh
  \/ \E c \in Calls : FetchDone(c) /\ UNCHANGED refresh
  \/ \E c \in Calls : FetchFail(c) /\ UNCHANGED refresh
  \/ \E c \in Calls : OpenFile(c) /\ UNCHANGED refresh
  \/ \E c \in Calls : ReadRecords(c) /\ UNCHANGED refresh
  \/ \E c \in Calls : ReadFinish(c) /\ UNCHANGED refresh
  \/ \E c \in Calls : ReadReturn(c) /\ UNCHANGED refresh
  \/ ClearCache /\ UNCHANGED refresh
  \/ Tick /\ UNCHANGED refresh

(***************************************************************************)
(* POST /api/graph/refresh: s3Service.clearCache() and then getGraphData,  *)
(* whose reads are readParquetFile calls made one after the other, while   *)
(* reads of other graph requests are in flight.                            *)
(***************************************************************************)
Downloading(c) == calls[c].pc \in {"fetching", "opening", "reading", "closing"}

\* The refresh route runs s3Service.clearCache().
RefreshClearCache ==
  /\ ~refresh.cleared
  /\ cache' = [k \in Keys |-> NoEntry]
  /\ storedAt' = [k \in Keys |-> -1]
  /\ refresh' = [refresh EXCEPT !.cleared = TRUE,
                                !.old = [c \in Calls |-> Downloading(c)]]
  /\ UNCHANGED <<clock, ticks, tmp, calls>>
  /\ UNCHANGED <<graphVars, relocVars, ignoreVars, frontVars>>

\* A readParquetFile call begins: a read of the refresh request's
\* getGraphData (own; after its clearCache, one at a time) or of another
\* graph request.
RefreshReadStart(c, k, own) ==
  /\ own => refresh.cleared /\ \A d \in Calls : ~refresh.mine[d]
  /\ ReadStart(c, k)
  /\ refresh' = [refresh EXCEPT
                   !.mine[c] = own,
                   !.old[c] = FALSE,
                   !.servedOld[c] = calls'[c].hit /\ refresh.entryOld[k]]

\* cache.set and return: the entry and the result hold what this call
\* downloaded.
RefreshReadFinish(c) ==
  /\ ReadFinish(c)
  /\ refresh' = [refresh EXCEPT
                   !.entryOld[calls[c].key] = refresh.old[c],
                   !.servedOld[c] = refresh.old[c]]

RefreshReadReturn(c) ==
  /\ ReadReturn(c)
  /\ refresh' = [refresh EXCEPT !.mine[c] = FALSE, !.old[c] = FALSE,
                                !.servedOld[c] = FALSE]

RefreshNext ==
  \/ RefreshClearCache
  \/ \E c \in Calls, k \in Keys, own \in BOOLEAN : RefreshReadStart(c, k, own)
  \/ \E c \in Calls : FetchDone(c) /\ UNCHANGED refresh
  \/ \E c \in Calls : FetchFail(c) /\ UNCHANGED refresh
  \/ \E c \in Calls : OpenFile(c) /\ UNCHANGED refresh
  \/ \E c \in Calls : ReadRecords(c) /\ UNCHANGED refresh
  \/ \E c \in Calls : RefreshReadFinish(c)
  \/ \E c \in Calls : RefreshReadReturn(c)

(***************************************************************************)
(* S3Service: the asset graph (transformAssetData, createLinks,            *)
(* getGraphData).  A node keeps the fields the links are built from: id,   *)
(* type, group and metadata.VpcId; a record keeps the fields they are      *)
(* read from.                                                              *)
(***************************************************************************)
AssetTypes ==
  {"VPC", "Subnet", "SG", "EC2", "NI", "NetworkInterface", "S3", "IAMRole"}

\* A record of an asset table.  snake and camel are its values under the keys
\* `${assetType.toLowerCase()}_id` and `${assetType.toLowerCase()}Id` of the
\* asset type it is listed under; id and VpcId are its fields of those names.
Records ==
  [snake : {Undef, "a"}, camel : {Undef, "b"}, id : {Undef, "b"},
   VpcId : {Undef, "a", "b"}]

Min(x, y) == IF x < y THEN x ELSE y

\* The contents a table of at most n records can have.
TablesUpTo(n) == UNION { [1..m -> Records] : m \in 0..Min(n, MaxRecs) }

\* JavaScript truthiness of a string-or-undefined value, and x || y.
Truthy(x) == x \notin {Undef, ""}
Or(x, y) == IF Truthy(x) THEN x ELSE y

\* `${x}` of a string-or-undefined value.
Str(x) == IF x = Undef THEN "undefined" ELSE x

getAssetGroup(assetType) ==
  CASE assetType = "EC2" -> "Compute"
    [] assetType \in {"VPC", "Subnet", "IGW", "SG", "NI"} -> "Networking"
    [] assetType = "S3" -> "Storage"
    [] assetType \in {"IAMRole", "IAMPolicy", "IAMUser"} -> "Administrative"
    [] OTHER -> assetType

\* The asset types whose switch case copies record.VpcId into the metadata.
CopiesVpcId(assetType) == assetType \in {"EC2", "VPC", "Subnet", "IGW", "SG", "NI"}

transformAssetData(assetType, data) ==
  [i \in 1..Len(data) |->
     LET record == data[i]
     IN  [id    |-> Or(record.snake, Or(record.camel, record.id)),
          type  |-> assetType,
          group |-> getAssetGroup(assetType),
          VpcId |-> IF CopiesVpcId(assetType) THEN record.VpcId ELSE Undef]]

OfType(nodes, t) == SelectSeq(nodes, LAMBDA n : n.type = t)

networkInterfaceNodes_NI(nodes) == OfType(nodes, "NI")

\* nodes.filter(node => node.type === 'NetworkInterface')
networkInterfaceNodes(nodes) == OfType(nodes, "NetworkInterface")

VpcMatch_ById(n, vpc) == n.VpcId = vpc.id

\* x.metadata?.VpcId === vpc.metadata?.VpcId
VpcMatch(n, vpc) == n.VpcId = vpc.VpcId

FrameId(id) == "frame-" \o Str(id)

adminFrame ==
  [id |-> "frame-administrative", type |-> "ADMIN_FRAME", group |-> "FRAME",
   VpcId |-> Undef]

storageFrame ==
  [id |-> "frame-storage", type |-> "STORAGE_FRAME", group |-> "FRAME",
   VpcId |-> Undef]

\* vpcNodes.map(vpc => ({id: `frame-${vpc.id}`, ..., metadata: {...vpc.metadata}}))
vpcFrames(nodes) ==
  LET vpcNodes == OfType(nodes, "VPC")
  IN  [i \in 1..Len(vpcNodes) |->
         [id |-> FrameId(vpcNodes[i].id), type |-> "VPC_FRAME",
          group |-> "FRAME", VpcId |-> vpcNodes[i].VpcId]]

\* nodes.push(...vpcFrames, adminFrame, storageFrame)
WithFrames(nodes) == nodes \o vpcFrames(nodes) \o <<adminFrame, storageFrame>>

LinksTo(sources, target, value) ==
  [i \in 1..Len(sources) |->
     [source |-> sources[i].id, target |-> target, value |-> value]]

\* The body of vpcNodes.forEach: the VPC's own link, then its subnets,
\* security groups, network interfaces and instances.
VpcLinks(nodes, vpc) ==
  LET vpcFrameId == FrameId(vpc.id)
      Matching(t) == SelectSeq(OfType(nodes, t), LAMBDA n : VpcMatch(n, vpc))
  IN  <<[source |-> vpc.id, target |-> vpcFrameId, value |-> 2]>>
      \o LinksTo(Matching("Subnet"), vpcFrameId, 1)
      \o LinksTo(Matching("SG"), vpcFrameId, 1)
      \o LinksTo(SelectSeq(networkInterfaceNodes(nodes),
                           LAMBDA n : VpcMatch(n, vpc)), vpcFrameId, 1)
      \o LinksTo(Matching("EC2"), vpcFrameId, 1)

RECURSIVE ForEachVpc(_, _, _)
ForEachVpc(nodes, vpcNodes, i) ==
  IF i > Len(vpcNodes) THEN <<>>
  ELSE VpcLinks(nodes, vpcNodes[i]) \o ForEachVpc(nodes, vpcNodes, i + 1)

\* networkInterfaceNodes.forEach(ni => { if (ni.metadata?.VpcId) links.push(
\*   {source: ni.id, target: `frame-${vpcId}`, value: 1}) })
CrossVpcLinks(nodes) ==
  LET nis == SelectSeq(networkInterfaceNodes(nodes), LAMBDA n : Truthy(n.VpcId))
  IN  [i \in 1..Len(nis) |->
         [source |-> nis[i].id, target |-> FrameId(nis[i].VpcId), value |-> 1]]

\* createLinks(nodes): the links it returns.  The type filters read the
\* asset nodes; the administrative and storage filters run after the push
\* and read the frames too.
createLinks(nodes) ==
  LET pushed == WithFrames(nodes)
  IN  ForEachVpc(nodes, OfType(nodes, "VPC"), 1)
      \o LinksTo(SelectSeq(pushed, LAMBDA n :
                   n.type \in {"IAMRole", "IAMPolicy", "IAMUser"}),
                 adminFrame.id, 1)
      \o LinksTo(OfType(pushed, "S3"), storageFrame.id, 1)
      \o CrossVpcLinks(nodes)

NoGraph ==
  [nodes |-> <<>>, links |-> <<>>,
   metadata |-> [totalNodes |-> 0, totalLinks |-> 0, vpcCount |-> 0]]

GraphInit ==
  /\ gpc = "start"
  /\ gerr = ""
  /\ dirLen = 0
  /\ gindex = 0
  /\ allNodes = <<>>
  /\ okNodes = <<>>
  /\ nFailed = 0
  /\ graph = NoGraph

\* getAssetDirectory resolved: the directory lists dirLen asset types.
GetAssetDirectory ==
  /\ gpc = "start"
  /\ \E n \in 0..MaxDir : dirLen' = n
  /\ gpc' = "loop"
  /\ UNCHANGED <<gerr, gindex, allNodes, okNodes, nFailed, graph>>
  /\ UNCHANGED <<cacheVars, relocVars, ignoreVars, frontVars>>

\* getAssetDirectory's catch: readParquetFile of the directory failed, and
\* getGraphData's own catch rethrows.
GetAssetDirectoryFails ==
  /\ gpc = "start"
  /\ gpc' = "rejected"
  /\ gerr' = "Failed to read asset directory"
  /\ UNCHANGED <<dirLen, gindex, allNodes, okNodes, nFailed, graph>>
  /\ UNCHANGED <<cacheVars, relocVars, ignoreVars, frontVars>>

\* The loop body when readParquetFile(asset.AssetTable) resolves with data:
\* allNodes.push(...transformAssetData(asset.AssetType, records)).
ProcessAsset(assetType, data) ==
  /\ gpc = "loop"
  /\ gindex < dirLen
  /\ allNodes' = allNodes \o transformAssetData(assetType, data)
  /\ okNodes' = okNodes \o transformAssetData(assetType, data)
  /\ gindex' = gindex + 1
  /\ UNCHANGED <<gpc, gerr, dirLen, nFailed, graph>>
  /\ UNCHANGED <<cacheVars, relocVars, ignoreVars, frontVars>>

RethrowAssetError ==
  /\ gpc' = "rejected"
  /\ gerr' = "S3 error"
  /\ UNCHANGED allNodes

\* catch (error) { console.error(`Error processing asset type ...`) }
SkipAssetError ==
  /\ UNCHANGED <<gpc, gerr, allNodes>>

\* The loop body when readParquetFile(asset.AssetTable) rejects.
ProcessAssetFails ==
  /\ gpc = "loop"
  /\ gindex < dirLen
  /\ SkipAssetError
  /\ nFailed' = nFailed + 1
  /\ gindex' = gindex + 1
  /\ UNCHANGED <<dirLen, okNodes, graph>>
  /\ UNCHANGED <<cacheVars, relocVars, ignoreVars, frontVars>>

\* After the loop: createLinks(allNodes) pushes the frames and returns the
\* links; the call resolves with {nodes: allNodes, links: allLinks, metadata}.
BuildGraph ==
  /\ gpc = "loop"
  /\ gindex = dirLen
  /\ LET links == createLinks(allNodes)
         nodes == WithFrames(allNodes)
     IN  /\ allNodes' = nodes
         /\ graph' = [nodes |-> nodes, links |-> links,
                      metadata |-> [totalNodes |-> Len(nodes),
                                    totalLinks |-> Len(links),
                                    vpcCount |-> Len(OfType(nodes, "VPC"))]]
  /\ gpc' = "done"
  /\ UNCHANGED <<gerr, dirLen, gindex, okNodes, nFailed>>
  /\ UNCHANGED <<cacheVars, relocVars, ignoreVars, frontVars>>

(***************************************************************************)
(* The /api/graph routes.  Each awaits getGraphData and answers at once,   *)
(* so what a route answers is a function of how getGraphData ended.        *)
(***************************************************************************)
GraphRoutes ==
  {"GET /api/graph", "POST /api/graph/refresh", "PUT /api/graph",
   "POST /api/graph/nodes", "POST /api/graph/links",
   "DELETE /api/graph/nodes/:nodeId", "DELETE /api/graph/links"}

\* The error field of the route's catch.
RouteError(route) ==
  CASE route = "GET /api/graph" -> "Failed to fetch graph data"
    [] route = "POST /api/graph/refresh" -> "Failed to refresh graph data"
    [] route = "PUT /api/graph" -> "Failed to update graph data"
    [] route = "POST /api/graph/nodes" -> "Failed to add node"
    [] route = "POST /api/graph/links" -> "Failed to add link"
    [] route = "DELETE /api/graph/nodes/:nodeId" -> "Failed to remove node"
    [] route = "DELETE /api/graph/links" -> "Failed to remove link"

NoResponse ==
  [status |-> 0, keys |-> {}, error |-> "", details |-> "", data |-> NoGraph]

GraphResponse_Partial(route) ==
  [status |-> 200, keys |-> {"nodes", "links", "metadata"}, error |-> "",
   details |-> "",
   data |-> [nodes |-> WithFrames(allNodes), links |-> createLinks(allNodes),
             metadata |-> NoGraph.metadata]]

\* try { const graphData = await s3Service.getGraphData(); res.json(...) }
\* catch (error) { res.status(500).json({error, details: error.message}) }
\* The refresh route wraps the graph as {message, data}; the others answer
\* the graph itself.  Request parameters and bodies are not read.
GraphResponse(route) ==
  IF gpc = "done"
  THEN [status |-> 200,
        keys |-> IF route = "POST /api/graph/refresh"
                 THEN {"message", "data"} ELSE {"nodes", "links", "metadata"},
        error |-> "", details |-> "", data |-> graph]
  ELSE IF gpc = "rejected"
  THEN [status |-> 500, keys |-> {"error", "details"},
        error |-> RouteError(route),
        details |-> IF gerr # "" THEN gerr ELSE "Unknown error",
        data |-> NoGraph]
  ELSE NoResponse

GraphNext ==
  \/ GetAssetDirectory
  \/ GetAssetDirectoryFails
  \/ \E assetType \in AssetTypes, data \in TablesUpTo(MaxNodes - Len(allNodes)) :
       ProcessAsset(assetType, data)
  \/ ProcessAssetFails
  \/ BuildGraph

(***************************************************************************)
(* POST /api/fortifai and relocateEC2BetweenVPCs.  Every await of the      *)
(* workflow is one step of a request; the command sent at that step may    *)
(* fail (ok = FALSE).  The EC2 account changes on its own between steps:   *)
(* a stopping instance stops, a pending image becomes available or fails,  *)
(* a pending instance runs.                                                *)
(***************************************************************************)
Reqs == 1..NumReqs

OriginalInstance == "i-1"

\* The values of req.body.instanceId: missing, empty, the instance of the
\* account, an id no instance has.
InstanceIds == {Undef, "", OriginalInstance, "i-404"}

\* const destinationVpcId = 'vpc-01e8afe5e74576696'
DestinationVpcId == "vpc-01e8afe5e74576696"

\* createImageResponse.ImageId and runInstancesResponse.Instances[0].InstanceId
\* of request r.
ImageIdOf(r) == "ami-" \o ToString(r)
NewInstanceIdOf(r) == "i-new-" \o ToString(r)

NoResult ==
  [success |-> FALSE, newInstanceId |-> Undef, imageId |-> Undef,
   originalInstanceId |-> Undef]

\* sent is the request's EC2 commands in the order sent, a poll's repeated
\* describe listed once; seen holds the awaited states a describe reported;
\* waited says that a poll found the awaited state not reached; status and
\* bodyKeys are the status code and the keys of the JSON body answered.
IdleReq ==
  [pc |-> "idle", instanceId |-> Undef, sent |-> <<>>, seen |-> {},
   waited |-> FALSE, failedStep |-> "", eipFailed |-> "",
   imageId |-> Undef, newInstanceId |-> Undef, status |-> 0,
   bodyKeys |-> {}, result |-> NoResult]

\* The accounts a relocation may start in: the instance runs in the
\* destination VPC or in another one, the destination VPC has a subnet in
\* the instance's availability zone or none, the instance holds an elastic
\* IP or none.
Accounts ==
  [vpc : {"vpc-src", DestinationVpcId},
   hasSubnet : BOOLEAN,
   state : {"running"},
   images : {[r \in Reqs |-> "none"]},
   launched : {[r \in Reqs |-> "none"]},
   eip : {"none", OriginalInstance}]

RelocInit ==
  /\ req = [r \in Reqs |-> IdleReq]
  /\ ec2 \in Accounts

\* No request was made; the account is one of Accounts.
RelocIdle ==
  /\ req = [r \in Reqs |-> IdleReq]
  /\ ec2 = [vpc |-> "vpc-src", hasSubnet |-> TRUE, state |-> "running",
            images |-> [r \in Reqs |-> "none"],
            launched |-> [r \in Reqs |-> "none"], eip |-> OriginalInstance]

Sent(r, cmd) ==
  LET s == req[r].sent
  IN  IF Len(s) > 0 /\ s[Len(s)] = cmd THEN s ELSE Append(s, cmd)

RelocateCatch_Rollback(r) ==
  ec2' = [ec2 EXCEPT
            !.state = "running",
            !.images[r] = IF @ = "none" THEN @ ELSE "deregistered",
            !.launched[r] = IF @ = "none" THEN @ ELSE "terminated"]

\* catch (error) { console.error(...); throw error; }
RelocateCatch(r) == UNCHANGED ec2

\* An error thrown inside relocateEC2BetweenVPCs after command cmd was sent:
\* the catch rethrows, and the route's catch answers 500.
Throw(r, cmd, step) ==
  /\ req' = [req EXCEPT ![r] = [@ EXCEPT !.pc = "rejected",
                                         !.sent = Sent(r, cmd),
                                         !.failedStep = step,
                                         !.status = 500,
                                         !.bodyKeys = {"error", "details"}]]
  /\ RelocateCatch(r)

\* return {success: true, message, newInstanceId, imageId, originalInstanceId}
\* and the route's res.json({success: true, ...}).
Resolve(r, cmd, eipFailed) ==
  req' = [req EXCEPT ![r] =
            [@ EXCEPT !.pc = "resolved",
                      !.sent = Sent(r, cmd),
                      !.eipFailed = eipFailed,
                      !.status = 200,
                      !.bodyKeys = {"success", "message", "data"},
                      !.result = [success |-> TRUE,
                                  newInstanceId |-> req[r].newInstanceId,
                                  imageId |-> req[r].imageId,
                                  originalInstanceId |-> req[r].instanceId]]]

EipCatch_Rethrow(r, cmd) == Throw(r, cmd, cmd)

\* handleElasticIP's catch: console.error, "Don't throw the error".
EipCatch(r, cmd) == Resolve(r, cmd, cmd) /\ UNCHANGED ec2

StateReached_Any(observed, targetState) == TRUE

\* if (instance?.State?.Name === targetState) break;
StateReached(observed, targetState) == observed = targetState

PollAgain_GiveUp(r, cmd) == Throw(r, cmd, "timeout")

\* await new Promise(resolve => setTimeout(resolve, 5000)), and the loop's
\* next iteration.
PollAgain(r, cmd) ==
  /\ req' = [req EXCEPT ![r] = [@ EXCEPT !.sent = Sent(r, cmd),
                                         !.waited = TRUE]]
  /\ UNCHANGED ec2

\* One iteration of a polling loop of request r waiting at pc at for the
\* state target of what describe command cmd reports as observed.
Poll(r, ok, at, cmd, step, observed, target, next) ==
  /\ req[r].pc = at
  /\ IF ~ok THEN Throw(r, cmd, step)
     ELSE IF StateReached(observed, target)
     THEN /\ req' = [req EXCEPT ![r] =
                       [@ EXCEPT !.pc = next,
                                 !.sent = Sent(r, cmd),
                                 !.seen = IF observed = target
                                          THEN @ \cup {target} ELSE @]]
          /\ UNCHANGED ec2
     ELSE PollAgain(r, cmd)

PostFortifai_NoCheck(r, instanceId) ==
  /\ req[r].pc = "idle"
  /\ req' = [req EXCEPT ![r] = [@ EXCEPT !.pc = "describe",
                                         !.instanceId = instanceId]]
  /\ UNCHANGED ec2
  /\ UNCHANGED <<cacheVars, graphVars, ignoreVars, frontVars>>

\* The route handler up to the call of relocateEC2BetweenVPCs.
PostFortifai(r, instanceId) ==
  /\ req[r].pc = "idle"
  /\ IF ~Truthy(instanceId)
     THEN req' = [req EXCEPT ![r] = [@ EXCEPT !.pc = "badRequest",
                                              !.instanceId = instanceId,
                                              !.status = 400,
                                              !.bodyKeys = {"error", "details"}]]
     ELSE req' = [req EXCEPT ![r] = [@ EXCEPT !.pc = "describe",
                                              !.instanceId = instanceId]]
  /\ UNCHANGED ec2
  /\ UNCHANGED <<cacheVars, graphVars, ignoreVars, frontVars>>

\* DescribeInstances, the not-found and the already-in-target-VPC checks.
DescribeInstance(r, ok) ==
  /\ req[r].pc = "describe"
  /\ IF ~ok THEN Throw(r, "DescribeInstances", "DescribeInstances")
     ELSE IF req[r].instanceId # OriginalInstance
     THEN Throw(r, "DescribeInstances", "not found")
     ELSE IF ec2.vpc = DestinationVpcId
     THEN Throw(r, "DescribeInstances", "already in the target VPC")
     ELSE /\ req' = [req EXCEPT ![r] = [@ EXCEPT !.pc = "stop",
                                                 !.sent = Sent(r, "DescribeInstances")]]
          /\ UNCHANGED ec2
  /\ UNCHANGED <<cacheVars, graphVars, ignoreVars, frontVars>>

StopInstance_Exclusive(r, ok) ==
  /\ req[r].pc = "stop"
  /\ \A o \in Reqs \ {r} : req[o].pc \in {"idle", "badRequest", "resolved", "rejected"}
  /\ req' = [req EXCEPT ![r] = [@ EXCEPT !.pc = "waitStopped",
                                         !.sent = Sent(r, "StopInstances")]]
  /\ ec2' = [ec2 EXCEPT !.state = "stopping"]
  /\ UNCHANGED <<cacheVars, graphVars, ignoreVars, frontVars>>

\* await ec2Client.send(new StopInstancesCommand(...))
StopInstance(r, ok) ==
  /\ req[r].pc = "stop"
  /\ IF ~ok THEN Throw(r, "StopInstances", "StopInstances")
     ELSE /\ req' = [req EXCEPT ![r] = [@ EXCEPT !.pc = "waitStopped",
                                                 !.sent = Sent(r, "StopInstances")]]
          /\ ec2' = [ec2 EXCEPT !.state = IF @ = "running" THEN "stopping" ELSE @]
  /\ UNCHANGED <<cacheVars, graphVars, ignoreVars, frontVars>>

\* await waitForInstanceState(instanceId, 'stopped')
WaitForInstanceStopped(r, ok) ==
  /\ Poll(r, ok, "waitStopped", "DescribeInstances", "waitForInstanceState",
          ec2.state, "stopped", "createImage")
  /\ UNCHANGED <<cacheVars, graphVars, ignoreVars, frontVars>>

\* await ec2Client.send(new CreateImageCommand(...))
CreateImage(r, ok) ==
  /\ req[r].pc = "createImage"
  /\ IF ~ok THEN Throw(r, "CreateImage", "CreateImage")
     ELSE /\ req' = [req EXCEPT ![r] = [@ EXCEPT !.pc = "waitImage",
                                                 !.sent = Sent(r, "CreateImage"),
                                                 !.imageId = ImageIdOf(r)]]
          /\ ec2' = [ec2 EXCEPT !.images[r] = "pending"]
  /\ UNCHANGED <<cacheVars, graphVars, ignoreVars, frontVars>>

\* await waitForImageAvailable(imageId)
WaitForImageAvailable(r, ok) ==
  /\ Poll(r, ok, "waitImage", "DescribeImages", "waitForImageAvailable",
          ec2.images[r], "available", "subnets")
  /\ UNCHANGED <<cacheVars, graphVars, ignoreVars, frontVars>>

\* DescribeSubnets and the no-subnet check.
DescribeSubnets(r, ok) ==
  /\ req[r].pc = "subnets"
  /\ IF ~ok THEN Throw(r, "DescribeSubnets", "DescribeSubnets")
     ELSE IF ~ec2.hasSubnet THEN Throw(r, "DescribeSubnets", "no subnets found")
     ELSE /\ req' = [req EXCEPT ![r] = [@ EXCEPT !.pc = "run",
                                                 !.sent = Sent(r, "DescribeSubnets"),
                                                 !.seen = @ \cup {"subnet"}]]
          /\ UNCHANGED ec2
  /\ UNCHANGED <<cacheVars, graphVars, ignoreVars, frontVars>>

\* await ec2Client.send(new RunInstancesCommand(runInstancesParams))
RunInstances(r, ok) ==
  /\ req[r].pc = "run"
  /\ IF ~ok THEN Throw(r, "RunInstances", "RunInstances")
     ELSE /\ req' = [req EXCEPT ![r] = [@ EXCEPT !.pc = "waitRunning",
                                                 !.sent = Sent(r, "RunInstances"),
                                                 !.newInstanceId = NewInstanceIdOf(r)]]
          /\ ec2' = [ec2 EXCEPT !.launched[r] = "pending"]
  /\ UNCHANGED <<cacheVars, graphVars, ignoreVars, frontVars>>

\* await waitForInstanceState(newInstanceId, 'running')
WaitForInstanceRunning(r, ok) ==
  /\ Poll(r, ok, "waitRunning", "DescribeInstances", "waitForInstanceState",
          ec2.launched[r], "running", "eipDescribe")
  /\ UNCHANGED <<cacheVars, graphVars, ignoreVars, frontVars>>

\* handleElasticIP: DescribeAddresses and the search for the address of the
\* original instance; without one the workflow returns.
DescribeAddresses(r, ok) ==
  /\ req[r].pc = "eipDescribe"
  /\ IF ~ok THEN EipCatch(r, "DescribeAddresses")
     ELSE IF ec2.eip = req[r].instanceId
     THEN /\ req' = [req EXCEPT ![r] = [@ EXCEPT !.pc = "eipDisassociate",
                                                 !.sent = Sent(r, "DescribeAddresses")]]
          /\ UNCHANGED ec2
     ELSE Resolve(r, "DescribeAddresses", "") /\ UNCHANGED ec2
  /\ UNCHANGED <<cacheVars, graphVars, ignoreVars, frontVars>>

\* handleElasticIP: DisassociateAddress with the association id that was
\* read; EC2 refuses it when the association is gone.
DisassociateAddress(r, ok) ==
  /\ req[r].pc = "eipDisassociate"
  /\ IF ~ok \/ ec2.eip # req[r].instanceId
     THEN EipCatch(r, "DisassociateAddress")
     ELSE /\ req' = [req EXCEPT ![r] = [@ EXCEPT !.pc = "eipAssociate",
                                                 !.sent = Sent(r, "DisassociateAddress")]]
          /\ ec2' = [ec2 EXCEPT !.eip = "free"]
  /\ UNCHANGED <<cacheVars, graphVars, ignoreVars, frontVars>>

\* handleElasticIP: the 5 s sleep, AssociateAddress with the new instance,
\* and the return of the workflow.
AssociateAddress(r, ok) ==
  /\ req[r].pc = "eipAssociate"
  /\ IF ~ok THEN EipCatch(r, "AssociateAddress")
     ELSE /\ Resolve(r, "AssociateAddress", "")
          /\ ec2' = [ec2 EXCEPT !.eip = req[r].newInstanceId]
  /\ UNCHANGED <<cacheVars, graphVars, ignoreVars, frontVars>>

\* The steps of request r inside relocateEC2BetweenVPCs.
RelocateStep(r, ok) ==
  \/ DescribeInstance(r, ok)
  \/ StopInstance(r, ok)
  \/ WaitForInstanceStopped(r, ok)
  \/ CreateImage(r, ok)
  \/ WaitForImageAvailable(r, ok)
  \/ DescribeSubnets(r, ok)
  \/ RunInstances(r, ok)
  \/ WaitForInstanceRunning(r, ok)
  \/ DescribeAddresses(r, ok)
  \/ DisassociateAddress(r, ok)
  \/ AssociateAddress(r, ok)

\* EC2 finishes stopping the original instance.
EnvInstanceStopped ==
  /\ ec2.state = "stopping"
  /\ ec2' = [ec2 EXCEPT !.state = "stopped"]
  /\ UNCHANGED req
  /\ UNCHANGED <<cacheVars, graphVars, ignoreVars, frontVars>>

\* EC2 finishes the image of request r, or gives it up.
EnvImageDone(r) ==
  /\ ec2.images[r] = "pending"
  /\ \E st \in {"available", "failed"} : ec2' = [ec2 EXCEPT !.images[r] = st]
  /\ UNCHANGED req
  /\ UNCHANGED <<cacheVars, graphVars, ignoreVars, frontVars>>

\* The replacement instance of request r starts running.
EnvInstanceRunning(r) ==
  /\ ec2.launched[r] = "pending"
  /\ ec2' = [ec2 EXCEPT !.launched[r] = "running"]
  /\ UNCHANGED req
  /\ UNCHANGED <<cacheVars, graphVars, ignoreVars, frontVars>>

RelocNext ==
  \/ \E r \in Reqs, instanceId \in InstanceIds : PostFortifai(r, instanceId)
  \/ \E r \in Reqs, ok \in BOOLEAN : RelocateStep(r, ok)
  \/ EnvInstanceStopped
  \/ \E r \in Reqs : EnvImageDone(r)
  \/ \E r \in Reqs : EnvInstanceRunning(r)

(***************************************************************************)
(* POST /api/fortifai/ignore.                                              *)
(***************************************************************************)
Instances == {"i-1", "i-2"}

\* req.body.instanceId
IgnoreInstanceIds == {Undef, ""} \cup Instances

\* req.body.ignore with its typeof.
IgnoreInputs ==
  {[type |-> "undefined", value |-> Undef],
   [type |-> "boolean", value |-> "true"],
   [type |-> "boolean", value |-> "false"],
   [type |-> "string", value |-> "true"],
   [type |-> "number", value |-> "1"],
   [type |-> "object", value |-> "null"]}

IdleIgnore ==
  [pc |-> "idle", instanceId |-> Undef,
   ignore |-> [type |-> "undefined", value |-> Undef],
   status |-> 0, bodyKeys |-> {}, success |-> FALSE, data |-> Undef]

IgnoreInit ==
  /\ ig = IdleIgnore
  /\ isIgnored \in [Instances -> {Undef, "true", "false"}]

\* One ignore request served by no handler yet; the storage in one state.
IgnoreIdle ==
  /\ ig = IdleIgnore
  /\ isIgnored = [i \in Instances |-> Undef]

\* const result = false;//await s3Service.updateEC2IgnoreStatus(instanceId, ignore);
\* the storage after the statement.
UpdateEC2IgnoreStatus(instanceId, ignore) == isIgnored

\* metadata.IsIgnored of the EC2 node a graph read builds for the instance:
\* transformAssetData copies no IsIgnored field into the metadata.
GraphIsIgnored(instanceId) == Undef

\* The handler: it awaits nothing and answers in one step.
PostIgnore(instanceId, ignore) ==
  /\ ig.pc = "idle"
  /\ IF ~Truthy(instanceId) \/ ignore.type # "boolean"
     THEN /\ ig' = [ig EXCEPT !.pc = "answered", !.instanceId = instanceId,
                              !.ignore = ignore, !.status = 400,
                              !.bodyKeys = {"error", "details"}]
          /\ UNCHANGED isIgnored
     ELSE /\ ig' = [ig EXCEPT !.pc = "answered", !.instanceId = instanceId,
                              !.ignore = ignore, !.status = 200,
                              !.bodyKeys = {"success", "message", "data"},
                              !.success = TRUE, !.data = "false"]
          /\ isIgnored' = UpdateEC2IgnoreStatus(instanceId, ignore)
  /\ UNCHANGED <<cacheVars, graphVars, relocVars, frontVars>>

\* The next request arrives.
IgnoreDone ==
  /\ ig.pc = "answered"
  /\ ig' = IdleIgnore
  /\ UNCHANGED isIgnored
  /\ UNCHANGED <<cacheVars, graphVars, relocVars, frontVars>>

IgnoreNext ==
  \/ \E instanceId \in IgnoreInstanceIds, ignore \in IgnoreInputs :
       PostIgnore(instanceId, ignore)
  \/ IgnoreDone

(***************************************************************************)
(* The front end's proxy route, pages/api/proxy/[...path].ts.              *)
(***************************************************************************)

\* req.query.path: missing, a single string, or the array of the segments
\* of the path after /api/proxy/ (no segment holds a '/').
PathInputs ==
  {[given |-> FALSE, array |-> FALSE, parts |-> <<>>],
   [given |-> TRUE, array |-> FALSE, parts |-> <<"token">>],
   [given |-> TRUE, array |-> TRUE, parts |-> <<>>],
   [given |-> TRUE, array |-> TRUE, parts |-> <<"token">>],
   [given |-> TRUE, array |-> TRUE, parts |-> <<"token", "refresh">>],
   [given |-> TRUE, array |-> TRUE, parts |-> <<"graph">>],
   [given |-> TRUE, array |-> TRUE, parts |-> <<"data-access", "graph", "nodes">>]}

Methods == {"GET", "POST", "DELETE"}

\* req.headers.authorization
AuthHeaders == {Undef, "Bearer development_token"}

\* The status codes the gateway answers with.
GatewayStatuses == {200, 401, 404, 500}

\* parts.join('/')
RECURSIVE Join(_)
Join(parts) ==
  IF parts = <<>> THEN ""
  ELSE IF Len(parts) = 1 THEN parts[1]
  ELSE parts[1] \o "/" \o Join(Tail(parts))

\* apiPath.split('/') of an apiPath that was joined from parts: the parts
\* again, and one empty segment for the empty string.
SplitJoined(parts) == IF parts = <<>> THEN <<"">> ELSE parts

\* `${config.apiGatewayUrl}/api/v1/${serviceName}/${servicePath}`
TargetUrl(parts) ==
  LET pathParts == SplitJoined(parts)
      serviceName == pathParts[1]
      servicePath == Join(Tail(pathParts))
  IN  "gateway" \o "/api/v1/" \o serviceName \o "/" \o servicePath

IsTokenPath_Never(apiPath) == FALSE

\* if (apiPath === 'token')
IsTokenPath(apiPath) == apiPath = "token"

IdleProxy ==
  [pc |-> "idle", path |-> [given |-> FALSE, array |-> FALSE, parts |-> <<>>],
   method |-> "", authorization |-> Undef, fetches |-> 0, url |-> "",
   sentAuthorization |-> Undef, sentBody |-> FALSE, gatewayStatus |-> 0,
   json |-> FALSE, failed |-> FALSE, status |-> 0, body |-> ""]

ProxyInit == px = IdleProxy

\* The handler up to its first await: the path check, the token
\* short-circuit, and the call of fetch(targetUrl, ...).
ProxyReceive(path, method, authorization) ==
  /\ px.pc = "idle"
  /\ LET received == [px EXCEPT !.path = path, !.method = method,
                                !.authorization = authorization]
     IN  IF ~path.given \/ ~path.array
         THEN px' = [received EXCEPT !.pc = "answered", !.status = 400,
                                     !.body = "Invalid path parameter"]
         ELSE IF IsTokenPath(Join(path.parts))
         THEN px' = [received EXCEPT !.pc = "answered", !.status = 200,
                                     !.body = "development_token"]
         ELSE px' = [received EXCEPT !.pc = "fetching",
                                     !.fetches = @ + 1,
                                     !.url = TargetUrl(path.parts),
                                     !.sentAuthorization = authorization,
                                     !.sentBody = (method # "GET")]
  /\ UNCHANGED <<backVars, apiVars>>

\* fetch resolves with the gateway's answer.
ProxyFetchResolves(status, json) ==
  /\ px.pc = "fetching"
  /\ px' = [px EXCEPT !.pc = "reading", !.gatewayStatus = status, !.json = json]
  /\ UNCHANGED <<backVars, apiVars>>

\* fetch rejects: the catch answers 500.
ProxyFetchRejects ==
  /\ px.pc = "fetching"
  /\ px' = [px EXCEPT !.pc = "answered", !.failed = TRUE, !.status = 500,
                      !.body = "Failed to proxy request"]
  /\ UNCHANGED <<backVars, apiVars>>

\* await response.json() or response.text(), and the relay of the status
\* and the data; a body that cannot be read ends in the catch.
ProxyRelay(ok) ==
  /\ px.pc = "reading"
  /\ IF ok
     THEN px' = [px EXCEPT !.pc = "answered", !.status = px.gatewayStatus,
                           !.body = IF px.json THEN "gateway json" ELSE "gateway text"]
     ELSE px' = [px EXCEPT !.pc = "answered", !.failed = TRUE, !.status = 500,
                           !.body = "Failed to proxy request"]
  /\ UNCHANGED <<backVars, apiVars>>

\* The next request arrives.
ProxyDone ==
  /\ px.pc = "answered"
  /\ px' = IdleProxy
  /\ UNCHANGED <<backVars, apiVars>>

ProxyNext ==
  \/ \E path \in PathInputs, method \in Methods, authorization \in AuthHeaders :
       ProxyReceive(path, method, authorization)
  \/ \E status \in GatewayStatuses, json \in BOOLEAN : ProxyFetchResolves(status, json)
  \/ ProxyFetchRejects
  \/ \E ok \in BOOLEAN : ProxyRelay(ok)
  \/ ProxyDone

(***************************************************************************)
(* The browser's ApiService, src/services/api.ts.                          *)
(*                                                                         *)
(* One step of the model is one task of the browser's event loop with the  *)
(* microtasks it runs: a call made by the page, a response of the network, *)
(* or a timer, followed by every continuation that becomes ready with it.  *)
(* Each response resolves one promise, so a continuation runs in the step  *)
(* of the response it awaits.                                              *)
(***************************************************************************)

\* JavaScript's null; `${null}` is the text "null".
Null == "null"

GRAPH_TTL == 300000

\* The advances of the browser's clock, and its value at the start.
ApiTickSteps == {1, 299999}
ApiEpoch == 1000000

\* The access tokens the token endpoint answers with.
Tokens == {"development_token", "development_token_2"}

\* The page's callers of getGraphData; caller 0 is refreshGraphData.
GraphCallers == 1..NumGraphCalls
RefreshCaller == 0
AllGraphCallers == GraphCallers \cup {RefreshCaller}

RunIds == 1..MaxRuns

\* const assetTypes of fetchGraphData; a run of the model goes through the
\* first MaxTypes of them.
assetTypes ==
  <<"vpc", "subnet", "ec2", "sg", "s3", "iam_role", "iam_policy", "user",
    "igw", "k8s_pod", "k8s_node", "k8s_deployment", "k8s_service">>

\* The owners of a fetchWithAuth activation: the fetchAssets call of a
\* fetchGraphData run, the sync request of refreshGraphData, or a caller of
\* the page (api.get, api.post, ...).
Clients == 1..NumClients
RunFw(r) == <<"run", r>>
SyncFw == <<"sync", 0>>
ClientFw(c) == <<"client", c>>
GraphFwIds == {RunFw(r) : r \in RunIds} \cup {SyncFw}
ClientFwIds == {ClientFw(c) : c \in Clients}
FwIds == GraphFwIds \cup ClientFwIds

\* An endpoint or a URL path is the sequence of its '/'-separated segments:
\* '/api/v1/sync' is <<"", "api", "v1", "sync">>.
SyncEndpoint == <<"", "api", "v1", "sync">>

API_VERSION == "v1"
AssetsEndpoint(assetType) ==
  <<"", "api", "data-access", "assets", "type", assetType>>

\* endpoint.replace(/^\/api\//, '')
StripApi(endpoint) ==
  IF Len(endpoint) >= 3 /\ endpoint[1] = "" /\ endpoint[2] = "api"
  THEN SubSeq(endpoint, 3, Len(endpoint))
  ELSE endpoint

\* `/api/proxy/${endpoint.replace(/^\/api\//, '')}`
ProxyUrl(endpoint) == <<"", "api", "proxy">> \o StripApi(endpoint)

NoGraphData == [run |-> 0, fetched |-> 0]

IdleGc ==
  [pc |-> "idle", run |-> 0, starter |-> FALSE, hit |-> FALSE, now |-> 0,
   result |-> NoGraphData]

\* started and afterSync are history: the clock at the call of
\* fetchGraphData, and whether the sync request of refreshGraphData had
\* resolved by then.
IdleRun ==
  [pc |-> "idle", i |-> 0, fetched |-> 0, started |-> 0, afterSync |-> FALSE]

IdleFw ==
  [pc |-> "idle", endpoint |-> <<>>, method |-> "GET", url |-> <<>>,
   authorization |-> Undef, sends |-> 0, rounds |-> 0, status |-> 0,
   issued |-> Null]

ApiInit ==
  /\ apiClock = ApiEpoch
  /\ apiTicks = 0
  /\ token = Null
  /\ graphDataCache = NoGraphData
  /\ lastFetchTime = 0
  /\ fetchInProgress = FALSE
  /\ fetchPromise = 0
  /\ gc = [g \in AllGraphCallers |-> IdleGc]
  /\ runs = [r \in RunIds |-> IdleRun]
  /\ fw = [c \in FwIds |-> IdleFw]
  /\ isAuthenticating = FALSE

graphClientVars ==
  <<graphDataCache, lastFetchTime, fetchInProgress, fetchPromise, gc, runs>>

\* fetchWithAuth from the construction of the URL to the call of fetch.
\* sends is history: the requests the call has sent, counted up to
\* MaxRounds + 1.
FwSend(call, tok) ==
  [call EXCEPT !.pc = "sent", !.url = ProxyUrl(call.endpoint),
               !.authorization = "Bearer " \o tok,
               !.sends = IF @ > MaxRounds THEN @ ELSE @ + 1]

\* fetchWithAuth up to its first await: the call of authenticate when no
\* token is stored, the call of fetch otherwise.
FwEnter(endpoint, method, tok) ==
  LET call == [IdleFw EXCEPT !.endpoint = endpoint, !.method = method]
  IN  IF tok = Null THEN [call EXCEPT !.pc = "auth"] ELSE FwSend(call, tok)

\* if (this.fetchInProgress && this.fetchPromise)
InFlight_Never == FALSE

InFlight == fetchInProgress /\ fetchPromise # 0

\* if (this.graphDataCache && (now - this.lastFetchTime) < 5 * 60 * 1000)
CacheFresh_Inclusive(now) ==
  graphDataCache # NoGraphData /\ now - lastFetchTime <= GRAPH_TTL

CacheFresh(now) ==
  graphDataCache # NoGraphData /\ now - lastFetchTime < GRAPH_TTL

\* The run a call of fetchGraphData becomes.
FreeRuns == {r \in RunIds : runs[r].pc = "idle"}
NextRun == CHOOSE r \in FreeRuns : \A q \in FreeRuns : r <= q

\* getGraphData up to its first await, for caller g; fwBase is fw after
\* what the step did before the call.
GetGraphData(g, fwBase) ==
  IF InFlight
  THEN /\ gc' = [gc EXCEPT ![g] = [IdleGc EXCEPT !.pc = "waiting",
                                                 !.run = fetchPromise]]
       /\ fw' = fwBase
       /\ UNCHANGED <<graphDataCache, lastFetchTime, fetchInProgress,
                      fetchPromise, runs>>
  ELSE LET now == apiClock
       IN  IF CacheFresh(now)
           THEN /\ gc' = [gc EXCEPT ![g] =
                            [IdleGc EXCEPT !.pc = "resolved", !.hit = TRUE,
                                           !.now = now,
                                           !.result = graphDataCache]]
                /\ fw' = fwBase
                /\ UNCHANGED <<graphDataCache, lastFetchTime,
                               fetchInProgress, fetchPromise, runs>>
           ELSE /\ FreeRuns # {}
                /\ LET r == NextRun
                       synced == fwBase[SyncFw].pc = "resolved"
                   IN  /\ fetchInProgress' = TRUE
                       /\ fetchPromise' = r
                       /\ gc' = [gc EXCEPT ![g] =
                                   [IdleGc EXCEPT !.pc = "waiting", !.run = r,
                                                  !.starter = TRUE,
                                                  !.now = now]]
                       \* fetchGraphData up to its first await
                       /\ IF token = Null
                          THEN /\ runs' = [runs EXCEPT ![r] =
                                     [IdleRun EXCEPT !.pc = "auth",
                                                     !.started = apiClock,
                                                     !.afterSync = synced]]
                               /\ fw' = fwBase
                          ELSE /\ runs' = [runs EXCEPT ![r] =
                                     [IdleRun EXCEPT !.pc = "assets", !.i = 1,
                                                     !.started = apiClock,
                                                     !.afterSync = synced]]
                               /\ fw' = [fwBase EXCEPT ![RunFw(r)] =
                                     FwEnter(AssetsEndpoint(assetTypes[1]),
                                             "GET", token)]
                /\ UNCHANGED <<graphDataCache, lastFetchTime>>

\* The promise of run r settles: the continuation of the getGraphData call
\* that started it (the assignments after the await, and the finally),
\* and the promises of the calls that returned this.fetchPromise.
RunSettles(r, ok, fwBase) ==
  LET result == [run |-> r, fetched |-> runs[r].fetched]
      starter == CHOOSE g \in AllGraphCallers :
                   gc[g].pc = "waiting" /\ gc[g].run = r /\ gc[g].starter
  IN  /\ runs' = [runs EXCEPT ![r].pc = IF ok THEN "resolved" ELSE "rejected"]
      /\ gc' = [g \in AllGraphCallers |->
                  IF gc[g].pc = "waiting" /\ gc[g].run = r
                  THEN [gc[g] EXCEPT !.pc = IF ok THEN "resolved" ELSE "rejected",
                                     !.result = IF ok THEN result ELSE NoGraphData]
                  ELSE gc[g]]
      /\ graphDataCache' = IF ok THEN result ELSE graphDataCache
      /\ lastFetchTime' = IF ok THEN gc[starter].now ELSE lastFetchTime
      /\ fetchInProgress' = FALSE
      /\ fetchPromise' = 0
      /\ fw' = fwBase

\* A caller of the page calls api.getGraphData().
CallGetGraphData(g) ==
  /\ gc[g].pc = "idle"
  /\ GetGraphData(g, fw)
  /\ UNCHANGED <<apiClock, apiTicks, token>>
  /\ UNCHANGED <<backVars, proxyVars, isAuthenticating>>

\* The page calls api.refreshGraphData(): fetchWithAuth('/api/v1/sync',
\* { method: 'POST' }) up to its first await.
RefreshGraphData ==
  /\ fw[SyncFw].pc = "idle"
  /\ gc[RefreshCaller].pc = "idle"
  /\ fw' = [fw EXCEPT ![SyncFw] = FwEnter(SyncEndpoint, "POST", token)]
  /\ UNCHANGED <<apiClock, apiTicks, token, graphClientVars>>
  /\ UNCHANGED <<backVars, proxyVars, isAuthenticating>>

\* The page calls a method of the service that goes through fetchWithAuth.
FwStart(c, endpoint, method) ==
  /\ fw[c].pc = "idle"
  /\ fw' = [fw EXCEPT ![c] = FwEnter(endpoint, method, token)]
  /\ UNCHANGED <<apiClock, apiTicks, token, graphClientVars>>
  /\ UNCHANGED <<backVars, proxyVars, isAuthenticating>>

\* The authenticate call of fetchGraphData resolves: the token is stored
\* and the loop begins with the first fetchAssets.
RunTokenIssued(r, t) ==
  /\ runs[r].pc = "auth"
  /\ token' = t
  /\ runs' = [runs EXCEPT ![r].pc = "assets", ![r].i = 1]
  /\ fw' = [fw EXCEPT ![RunFw(r)] =
              FwEnter(AssetsEndpoint(assetTypes[1]), "GET", t)]
  /\ UNCHANGED <<apiClock, apiTicks, graphDataCache, lastFetchTime,
                 fetchInProgress, fetchPromise, gc>>
  /\ UNCHANGED <<backVars, proxyVars, isAuthenticating>>

\* The authenticate call of fetchGraphData rejects (the token request
\* fails or is answered with a status that is not ok): the run rejects.
RunTokenFails(r) ==
  /\ runs[r].pc = "auth"
  /\ RunSettles(r, FALSE, fw)
  /\ UNCHANGED <<apiClock, apiTicks, token>>
  /\ UNCHANGED <<backVars, proxyVars, isAuthenticating>>

\* The 500 ms delay after a fetchAssets call ends: the next asset type, or
\* the end of the loop and the graph.
RunDelayDone(r) ==
  /\ runs[r].pc = "delay"
  /\ IF runs[r].i < MaxTypes
     THEN /\ runs' = [runs EXCEPT ![r].pc = "assets", ![r].i = @ + 1]
          /\ fw' = [fw EXCEPT ![RunFw(r)] =
                      FwEnter(AssetsEndpoint(assetTypes[runs[r].i + 1]),
                              "GET", token)]
          /\ UNCHANGED <<graphDataCache, lastFetchTime, fetchInProgress,
                         fetchPromise, gc>>
     ELSE RunSettles(r, TRUE, fw)
  /\ UNCHANGED <<apiClock, apiTicks, token>>
  /\ UNCHANGED <<backVars, proxyVars, isAuthenticating>>

\* return this.fetchWithAuth(endpoint, options) entered with the token
\* that was stored before authenticate resolved.
FwTokenIssued_OldToken(c, t) ==
  /\ fw[c].pc \in {"auth", "reauth"}
  /\ token' = t
  /\ fw' = [fw EXCEPT ![c] = FwSend([@ EXCEPT !.issued = t], token)]
  /\ UNCHANGED <<apiClock, apiTicks, graphClientVars>>
  /\ UNCHANGED <<backVars, proxyVars, isAuthenticating>>

\* The authenticate call of a fetchWithAuth activation resolves: the token
\* is stored and the request is sent, for the first time or again.
FwTokenIssued(c, t) ==
  /\ fw[c].pc \in {"auth", "reauth"}
  /\ token' = t
  /\ fw' = [fw EXCEPT ![c] = FwSend([@ EXCEPT !.issued = t], t)]
  /\ UNCHANGED <<apiClock, apiTicks, graphClientVars>>
  /\ UNCHANGED <<backVars, proxyVars, isAuthenticating>>

\* if (response.status === 401 || response.status === 403): the token is
\* dropped and authenticate is called.
FwUnauthorized(c, status) ==
  /\ fw[c].pc = "sent"
  /\ fw[c].rounds < MaxRounds
  /\ token' = Null
  /\ fw' = [fw EXCEPT ![c].pc = "reauth", ![c].status = status,
                      ![c].rounds = @ + 1]
  /\ UNCHANGED <<apiClock, apiTicks, graphClientVars>>
  /\ UNCHANGED <<backVars, proxyVars, isAuthenticating>>

\* The same branch taken by a call that has been answered 401 or 403
\* MaxRounds times already: the code counts nothing, and rounds stays.
FwUnauthorizedAgain(c, status) ==
  /\ fw[c].pc = "sent"
  /\ fw[c].rounds = MaxRounds
  /\ token' = Null
  /\ fw' = [fw EXCEPT ![c].pc = "reauth", ![c].status = status]
  /\ UNCHANGED <<apiClock, apiTicks, graphClientVars>>
  /\ UNCHANGED <<backVars, proxyVars, isAuthenticating>>

\* What the owner of activation c does when c settles.  fetchAssets
\* catches every error and returns an array, so the loop of a run always
\* goes on to its delay; refreshGraphData returns this.getGraphData()
\* after the sync, and rejects with the error of the sync.
FwContinue(c, fwAfter, ok) ==
  IF c[1] = "run"
  THEN /\ runs' = [runs EXCEPT ![c[2]].pc = "delay",
                               ![c[2]].fetched = @ + (IF ok THEN 1 ELSE 0)]
       /\ fw' = fwAfter
       /\ UNCHANGED <<graphDataCache, lastFetchTime, fetchInProgress,
                      fetchPromise, gc>>
  ELSE IF c[1] = "sync"
  THEN IF ok
       THEN GetGraphData(RefreshCaller, fwAfter)
       ELSE /\ fw' = fwAfter
            /\ UNCHANGED graphClientVars
  ELSE /\ fw' = fwAfter
       /\ UNCHANGED graphClientVars

\* An activation settles.  how is "ok" (the response is ok and its JSON is
\* returned), "notok" (if (!response.ok) throws), "neterr" (fetch rejects,
\* or the timer aborts it), or "authfail" (authenticate throws).
FwSettle(c, how) ==
  /\ \/ fw[c].pc = "sent" /\ how \in {"ok", "notok", "neterr"}
     \/ fw[c].pc \in {"auth", "reauth"} /\ how = "authfail"
  /\ LET settled == [fw[c] EXCEPT
                       !.pc = IF how = "ok" THEN "resolved" ELSE "rejected",
                       !.status = IF how = "ok" THEN 200
                                  ELSE IF how = "notok" THEN 500 ELSE @]
     IN  FwContinue(c, [fw EXCEPT ![c] = settled], how = "ok")
  /\ UNCHANGED <<apiClock, apiTicks, token>>
  /\ UNCHANGED <<backVars, proxyVars, isAuthenticating>>

\* The browser's clock advances.
ApiTick ==
  /\ apiTicks < MaxApiTicks
  /\ \E d \in ApiTickSteps : apiClock' = apiClock + d
  /\ apiTicks' = apiTicks + 1
  /\ UNCHANGED <<token, graphClientVars, fw>>
  /\ UNCHANGED <<backVars, proxyVars, isAuthenticating>>

\* The promise of a settled activation has been consumed; the page makes
\* its next call.
FwReturn(c) ==
  /\ fw[c].pc \in {"resolved", "rejected"}
  /\ fw' = [fw EXCEPT ![c] = IdleFw]
  /\ UNCHANGED <<apiClock, apiTicks, token, graphClientVars>>
  /\ UNCHANGED <<backVars, proxyVars, isAuthenticating>>

\* The endpoints the page passes to fetchWithAuth, and the methods.
ClientEndpoints ==
  {SyncEndpoint,
   AssetsEndpoint("ec2"),
   <<"", "api", "sandbox-enforcer", "relocate-ec2">>,
   <<"", "api", API_VERSION, "data-access", "assets", "asset-1">>,
   <<"logs-collector", "collect">>}

ClientMethods == {"GET", "POST"}

\* Overlapping fetchWithAuth calls made by the page, with the network
\* under them.
AuthNext ==
  \/ \E c \in ClientFwIds, endpoint \in ClientEndpoints, method \in ClientMethods :
       FwStart(c, endpoint, method)
  \/ \E c \in ClientFwIds, t \in Tokens : FwTokenIssued(c, t)
  \/ \E c \in ClientFwIds, status \in {401, 403} : FwUnauthorized(c, status)
  \/ \E c \in ClientFwIds, how \in {"ok", "notok", "neterr", "authfail"} :
       FwSettle(c, how)
  \/ \E c \in ClientFwIds : FwReturn(c)

\* AuthNext with no limit on the 401 and 403 answers to one call.
RetryNext ==
  \/ AuthNext
  \/ \E c \in ClientFwIds, status \in {401, 403} : FwUnauthorizedAgain(c, status)

\* The answer to the request of activation c, and the answer to its token
\* request.
RequestAnswered(c) ==
  \/ \E how \in {"ok", "notok", "neterr"} : FwSettle(c, how)
  \/ \E status \in {401, 403} :
       FwUnauthorized(c, status) \/ FwUnauthorizedAgain(c, status)

TokenRequestAnswered(c) ==
  \/ \E t \in Tokens : FwTokenIssued(c, t)
  \/ FwSettle(c, "authfail")

\* getGraphData and refreshGraphData, with the network under them.
ApiNext ==
  \/ \E g \in GraphCallers : CallGetGraphData(g)
  \/ RefreshGraphData
  \/ \E r \in RunIds, t \in Tokens : RunTokenIssued(r, t)
  \/ \E r \in RunIds : RunTokenFails(r)
  \/ \E r \in RunIds : RunDelayDone(r)
  \/ \E c \in GraphFwIds, t \in Tokens : FwTokenIssued(c, t)
  \/ \E c \in GraphFwIds, status \in {401, 403} : FwUnauthorized(c, status)
  \/ \E c \in GraphFwIds, how \in {"ok", "notok", "neterr", "authfail"} :
       FwSettle(c, how)
  \/ ApiTick

(***************************************************************************)
(* The ApiService with the isAuthenticating field (api.ts:96 and           *)
(* unnamed/part_008): authenticate returns at once while another           *)
(* authenticate call is in progress, and only 401 is answered with a new   *)
(* authentication.                                                         *)
(***************************************************************************)

\* url of fetchWithAuth: `/api/proxy${endpoint.substring(4)}` for an
\* endpoint that starts with '/api/', `/api/proxy/${endpoint.replace(/^\//,
\* '')}` for any other.
GuardedUrl(endpoint) ==
  IF Len(endpoint) >= 3 /\ endpoint[1] = "" /\ endpoint[2] = "api"
  THEN <<"", "api", "proxy">> \o SubSeq(endpoint, 3, Len(endpoint))
  ELSE IF Len(endpoint) >= 2 /\ endpoint[1] = ""
  THEN <<"", "api", "proxy">> \o Tail(endpoint)
  ELSE <<"", "api", "proxy">> \o endpoint

\* From the construction of the URL to the call of fetch.
GuardedSend(call, tok) ==
  [call EXCEPT !.pc = "sent", !.url = GuardedUrl(call.endpoint),
               !.authorization = "Bearer " \o tok, !.sends = @ + 1]

\* The endpoints given to this fetchWithAuth.
GuardedEndpoints == {SyncEndpoint, AssetsEndpoint("ec2")}

\* fetchWithAuth up to its first await on the network.  With no token it
\* awaits authenticate, which returns at once when isAuthenticating is
\* set: the request is then sent with the token as it is.
GuardedStart(c, endpoint, method) ==
  /\ fw[c].pc = "idle"
  /\ LET call == [IdleFw EXCEPT !.endpoint = endpoint, !.method = method]
     IN  IF token = Null /\ ~isAuthenticating
         THEN /\ isAuthenticating' = TRUE
              /\ fw' = [fw EXCEPT ![c] = [call EXCEPT !.pc = "auth"]]
         ELSE /\ fw' = [fw EXCEPT ![c] = GuardedSend(call, token)]
              /\ UNCHANGED isAuthenticating
  /\ UNCHANGED <<apiClock, apiTicks, token, graphClientVars>>
  /\ UNCHANGED <<backVars, proxyVars>>

\* The token request of activation c is answered with a token: it is
\* stored, the flag is cleared and the request is sent.
GuardedTokenIssued(c, t) ==
  /\ fw[c].pc \in {"auth", "reauth"}
  /\ token' = t
  /\ isAuthenticating' = FALSE
  /\ fw' = [fw EXCEPT ![c] = GuardedSend([@ EXCEPT !.issued = t], t)]
  /\ UNCHANGED <<apiClock, apiTicks, graphClientVars>>
  /\ UNCHANGED <<backVars, proxyVars>>

\* The token request fails or is answered with a status that is not ok:
\* the catch clears the flag and the call rejects.
GuardedTokenFails(c) ==
  /\ fw[c].pc \in {"auth", "reauth"}
  /\ isAuthenticating' = FALSE
  /\ fw' = [fw EXCEPT ![c].pc = "rejected"]
  /\ UNCHANGED <<apiClock, apiTicks, token, graphClientVars>>
  /\ UNCHANGED <<backVars, proxyVars>>

\* if (response.status === 401): the token is dropped and authenticate
\* is awaited.  When it returns at once, the fetchWithAuth called next
\* finds no token, awaits authenticate once more, which returns at once
\* again, and sends the request.
GuardedUnauthorized(c) ==
  /\ fw[c].pc = "sent"
  /\ fw[c].rounds < MaxRounds
  /\ token' = Null
  /\ LET answered == [fw[c] EXCEPT !.status = 401, !.rounds = @ + 1]
     IN  IF isAuthenticating
         THEN /\ fw' = [fw EXCEPT ![c] = GuardedSend(answered, Null)]
              /\ UNCHANGED isAuthenticating
         ELSE /\ isAuthenticating' = TRUE
              /\ fw' = [fw EXCEPT ![c] = [answered EXCEPT !.pc = "reauth"]]
  /\ UNCHANGED <<apiClock, apiTicks, graphClientVars>>
  /\ UNCHANGED <<backVars, proxyVars>>

\* The request settles: its JSON is returned ("ok"), the status is not
\* ok ("notok"), or fetch rejects ("neterr").
GuardedSettle(c, how) ==
  /\ fw[c].pc = "sent"
  /\ fw' = [fw EXCEPT ![c].pc = IF how = "ok" THEN "resolved" ELSE "rejected",
                      ![c].status = IF how = "ok" THEN 200
                                    ELSE IF how = "notok" THEN 500 ELSE @]
  /\ UNCHANGED <<apiClock, apiTicks, token, graphClientVars, isAuthenticating>>
  /\ UNCHANGED <<backVars, proxyVars>>

\* The page makes its next call.
GuardedReturn(c) ==
  /\ fw[c].pc \in {"resolved", "rejected"}
  /\ fw' = [fw EXCEPT ![c] = IdleFw]
  /\ UNCHANGED <<apiClock, apiTicks, token, graphClientVars, isAuthenticating>>
  /\ UNCHANGED <<backVars, proxyVars>>

GuardedNext ==
  \/ \E c \in ClientFwIds, endpoint \in GuardedEndpoints, method \in ClientMethods :
       GuardedStart(c, endpoint, method)
  \/ \E c \in ClientFwIds, t \in Tokens : GuardedTokenIssued(c, t)
  \/ \E c \in ClientFwIds : GuardedTokenFails(c)
  \/ \E c \in ClientFwIds : GuardedUnauthorized(c)
  \/ \E c \in ClientFwIds, how \in {"ok", "notok", "neterr"} : GuardedSettle(c, how)
  \/ \E c \in ClientFwIds : GuardedReturn(c)

FrontInit == ProxyInit /\ ApiInit

vars == <<cacheVars, graphVars, relocVars, ignoreVars, frontVars>>

Init == CacheInit /\ GraphInit /\ RelocIdle /\ IgnoreIdle /\ FrontInit

Next == CacheNext

Spec == Init /\ [][Next]_vars

GraphSpec == Init /\ [][GraphNext]_vars

ProxySpec == Init /\ [][ProxyNext]_vars

RefreshSpec == Init /\ [][RefreshNext]_vars

\* The service has just been constructed and the EC2 table holds any
\* IsIgnored values.
IgnoreStart == CacheInit /\ GraphInit /\ RelocIdle /\ IgnoreInit /\ FrontInit

IgnoreSpec == IgnoreStart /\ [][IgnoreNext]_vars

\* The browser's ApiService: getGraphData, refreshGraphData and the
\* requests under them.
ApiSpec == Init /\ [][ApiNext]_vars

\* The browser's ApiService: fetchWithAuth and authenticate.
AuthSpec == Init /\ [][AuthNext]_vars

\* AuthSpec with any number of 401 and 403 answers, and a network that
\* answers every request: each request and each token request that is
\* waiting is answered in the end, with any of the answers.
RetrySpec == Init /\ [][RetryNext]_vars

RetryFairness ==
  \A c \in ClientFwIds :
    /\ WF_vars(RequestAnswered(c))
    /\ WF_vars(TokenRequestAnswered(c))

RetryLive == RetrySpec /\ RetryFairness

\* The ApiService with the isAuthenticating field: overlapping
\* fetchWithAuth calls.
GuardedSpec == Init /\ [][GuardedNext]_vars

\* The service has just been constructed and the account is any of Accounts.
RelocStart == CacheInit /\ GraphInit /\ RelocInit /\ IgnoreIdle /\ FrontInit

RelocSpec == RelocStart /\ [][RelocNext]_vars

\* A command that succeeds is answered, a timer that was set fires, and EC2
\* finishes what it has begun; nothing obliges a command to fail.
RelocFairness ==
  /\ \A r \in Reqs : WF_vars(RelocateStep(r, TRUE))
  /\ WF_vars(EnvInstanceStopped)
  /\ \A r \in Reqs : WF_vars(EnvImageDone(r)) /\ WF_vars(EnvInstanceRunning(r))

RelocLive == RelocSpec /\ RelocFairness

(***************************************************************************)
(* Claims about the cache and the read path (specification Spec).          *)
(***************************************************************************)

\* C1: readParquetFile serves from the cache, without contacting storage,
\* exactly when the cache holds an entry for the key that was stored strictly
\* less than CACHE_TTL ms ago: a hit (the call is done at once, never
\* downloading) has 0 <= age < 10000, a miss (the download is pending) found
\* no entry or one of age >= 10000.  The age is measured from the cache.set
\* that stored the entry, so a hit that renewed the timestamp would let a
\* later hit break the bound.
C1_CacheFreshness ==
  \A c \in Calls :
    /\ calls[c].hit =>
         /\ calls[c].pc = "done"
         /\ calls[c].age >= 0
         /\ calls[c].age < CACHE_TTL
    /\ calls[c].pc = "fetching" =>
         \/ calls[c].age = -1
         \/ calls[c].age >= CACHE_TTL

\* C1 witness: an entry is served from the cache 9999 ms after it was stored.
C1_Witness ==
  \E c \in Calls : calls[c].hit /\ calls[c].pc = "done" /\ calls[c].age = 9999

\* C2: overlapping readParquetFile calls do not disturb each other: every
\* call that completes returns the records of its own key, and a call fails
\* only because its own download failed.
C2_CallsIndependent ==
  \A c \in Calls :
    /\ calls[c].pc = "done" => calls[c].result = StoredRecords(calls[c].key)
    /\ calls[c].pc = "failed" => calls[c].err = "fetch"

(***************************************************************************)
(* Claims about the asset graph (specification GraphSpec).                 *)
(***************************************************************************)

\* C3: when the read of one asset type's table fails, getGraphData skips
\* that type and still resolves: it rejects only when the directory itself
\* could not be read, and the nodes it resolves with are the transformed
\* records of the reads that succeeded, in directory order, followed by
\* the VPC frames, the administrative frame and the storage frame; links and
\* metadata are those of these nodes and carry no trace of the failure.
C3_FailedAssetSkipped ==
  /\ gpc = "rejected" => nFailed = 0 /\ gerr = "Failed to read asset directory"
  /\ gpc = "done" =>
       /\ graph.nodes = okNodes \o vpcFrames(okNodes) \o <<adminFrame, storageFrame>>
       /\ graph.links = createLinks(okNodes)
       /\ graph.metadata.totalNodes = Len(okNodes) + Len(vpcFrames(okNodes)) + 2
       /\ DOMAIN graph = {"nodes", "links", "metadata"}

\* C3 witness: a call resolved although a table read failed, and the graph
\* holds records of a read that succeeded.
C3_Witness == gpc = "done" /\ nFailed >= 1 /\ Len(okNodes) >= 1 /\ dirLen >= 2

NodeIds == { graph.nodes[i].id : i \in 1..Len(graph.nodes) }

\* C4: in every graph getGraphData resolves with, the source and the target
\* of every link are ids of nodes of the returned nodes array.
C4_LinksResolve ==
  gpc = "done" =>
    \A i \in 1..Len(graph.links) :
      graph.links[i].source \in NodeIds /\ graph.links[i].target \in NodeIds

\* C4 witness: a returned graph with a link from a subnet into a VPC frame
\* and a link into the storage frame.
C4_Witness ==
  /\ gpc = "done"
  /\ \E i, j \in 1..Len(graph.links) :
       /\ graph.links[i].value = 1
       /\ graph.links[i].target \notin {adminFrame.id, storageFrame.id}
       /\ graph.links[j].target = storageFrame.id

NodesOf(types) ==
  { graph.nodes[i] : i \in { j \in 1..Len(graph.nodes) : graph.nodes[j].type \in types } }

HasLink(source, target) ==
  \E i \in 1..Len(graph.links) :
    graph.links[i].source = source /\ graph.links[i].target = target

VpcChildTypes == {"Subnet", "SG", "EC2"}

\* C5 as stated: for every VPC node v and Subnet, SG or EC2 node n there is
\* a link from n.id to 'frame-' + v.id exactly when the two VpcId fields
\* are equal.
C5_Original ==
  gpc = "done" =>
    \A v \in NodesOf({"VPC"}), n \in NodesOf(VpcChildTypes) :
      HasLink(n.id, FrameId(v.id)) <=> n.VpcId = v.VpcId

\* C5: for every VPC node v and Subnet, SG or EC2 node n, equal VpcId
\* fields give a link from n.id to 'frame-' + v.id; and such a link exists
\* only if some VPC node with v's id and some node with n's id are the same
\* node (the VPC's own link) or are a VPC and a Subnet, SG, EC2 or
\* NetworkInterface node with equal VpcId fields.  When ids are unique this
\* is the equivalence above.
C5_VpcFrameLinks ==
  gpc = "done" =>
    \A v \in NodesOf({"VPC"}), n \in NodesOf(VpcChildTypes) :
      /\ n.VpcId = v.VpcId => HasLink(n.id, FrameId(v.id))
      /\ HasLink(n.id, FrameId(v.id)) =>
           \E v2 \in NodesOf({"VPC"}),
              n2 \in NodesOf(VpcChildTypes \cup {"VPC", "NetworkInterface"}) :
             /\ v2.id = v.id
             /\ n2.id = n.id
             /\ \/ n2 = v2
                \/ n2.type # "VPC" /\ n2.VpcId = v2.VpcId

\* C5 witness: a VPC with one subnet, security group or instance inside it
\* (linked to its frame) and one outside it (not linked to its frame).
C5_Witness ==
  /\ gpc = "done"
  /\ \E v \in NodesOf({"VPC"}), n, m \in NodesOf(VpcChildTypes) :
       /\ Truthy(v.VpcId)
       /\ n.VpcId = v.VpcId /\ HasLink(n.id, FrameId(v.id))
       /\ m.VpcId # v.VpcId /\ ~HasLink(m.id, FrameId(v.id))

(***************************************************************************)
(* Claims about the relocation workflow (specifications RelocSpec and      *)
(* RelocLive).                                                             *)
(***************************************************************************)

\* The commands of a relocation that runs to its end, in the order sent.
CommandOrder ==
  <<"DescribeInstances", "StopInstances", "DescribeInstances", "CreateImage",
    "DescribeImages", "DescribeSubnets", "RunInstances", "DescribeInstances",
    "DescribeAddresses", "DisassociateAddress", "AssociateAddress">>

IsPrefix(s, t) == Len(s) <= Len(t) /\ \A i \in 1..Len(s) : s[i] = t[i]

HasSent(r, cmd) == \E i \in 1..Len(req[r].sent) : req[r].sent[i] = cmd

\* C6: relocateEC2BetweenVPCs sends its commands in the order stop,
\* snapshot, find subnet, launch, reattach: CreateImage is sent only after
\* a describe reported the original instance 'stopped', RunInstances only
\* after a describe reported the image 'available' and a destination
\* subnet was found, and the elastic-IP commands only after a describe
\* reported the new instance 'running'.
C6_StepOrder ==
  \A r \in Reqs :
    /\ IsPrefix(req[r].sent, CommandOrder)
    /\ HasSent(r, "CreateImage") => "stopped" \in req[r].seen
    /\ HasSent(r, "RunInstances") => {"available", "subnet"} \subseteq req[r].seen
    /\ ( \/ HasSent(r, "DescribeAddresses")
         \/ HasSent(r, "DisassociateAddress")
         \/ HasSent(r, "AssociateAddress") ) => "running" \in req[r].seen

\* C6 witness: a relocation that sent every command, the elastic-IP ones
\* included, after having polled.
C6_Witness ==
  \E r \in Reqs :
    req[r].pc = "resolved" /\ req[r].sent = CommandOrder /\ req[r].waited

EipCommands == {"DescribeAddresses", "DisassociateAddress", "AssociateAddress"}

\* C7: a failure of an elastic-IP command is not fatal: the relocation
\* resolves with success: true, the new instance id and the image id, and
\* the route answers 200; a failure of any other step makes the relocation
\* reject and the route answer 500.
C7_EipFailureNonFatal ==
  \A r \in Reqs :
    /\ req[r].eipFailed # "" =>
         req[r].eipFailed \in EipCommands /\ req[r].pc = "resolved"
    /\ req[r].pc = "resolved" =>
         /\ req[r].status = 200
         /\ req[r].failedStep = ""
         /\ req[r].result = [success |-> TRUE,
                             newInstanceId |-> NewInstanceIdOf(r),
                             imageId |-> ImageIdOf(r),
                             originalInstanceId |-> OriginalInstance]
    /\ req[r].failedStep # "" =>
         /\ req[r].failedStep \notin EipCommands
         /\ req[r].pc = "rejected"
         /\ req[r].status = 500
    /\ req[r].pc = "rejected" => req[r].failedStep # ""

\* C7 witness: one relocation resolved although DisassociateAddress failed,
\* another rejected because RunInstances failed.
C7_Witness ==
  \E r, o \in Reqs :
    /\ req[r].pc = "resolved" /\ req[r].eipFailed = "DisassociateAddress"
    /\ req[r].status = 200
    /\ req[o].pc = "rejected" /\ req[o].failedStep = "RunInstances"
    /\ req[o].status = 500

\* The command whose answer made the step fail.
CommandOf(step) ==
  CASE step \in {"not found", "already in the target VPC"} -> "DescribeInstances"
    [] step = "no subnets found" -> "DescribeSubnets"
    [] step = "waitForInstanceState" -> "DescribeInstances"
    [] step = "waitForImageAvailable" -> "DescribeImages"
    [] OTHER -> step

\* C8: a relocation that failed has sent no command after the one that
\* failed and none that undoes a step: if the original instance was seen
\* stopped it is still stopped, an image that was created is still
\* registered and a replacement that was launched is not terminated.
C8_NoCompensation ==
  \A r \in Reqs :
    req[r].pc = "rejected" =>
      /\ IsPrefix(req[r].sent, CommandOrder)
      /\ req[r].sent[Len(req[r].sent)] = CommandOf(req[r].failedStep)
      /\ "stopped" \in req[r].seen => ec2.state = "stopped"
      /\ req[r].imageId # Undef =>
           ec2.images[r] \in {"pending", "available", "failed"}
      /\ req[r].newInstanceId # Undef =>
           ec2.launched[r] \in {"pending", "running"}

\* C8 witness: a relocation failed while it waited for its replacement
\* instance; the original is stopped, the image and the replacement exist.
C8_Witness ==
  \E r \in Reqs :
    /\ req[r].pc = "rejected"
    /\ req[r].failedStep = "waitForInstanceState"
    /\ req[r].newInstanceId # Undef
    /\ ec2.state = "stopped"
    /\ ec2.images[r] = "available"
    /\ ec2.launched[r] = "running"

OwnFailures ==
  {"DescribeInstances", "StopInstances", "waitForInstanceState", "CreateImage",
   "waitForImageAvailable", "DescribeSubnets", "RunInstances",
   "not found", "already in the target VPC", "no subnets found"}

\* C9: relocation requests exclude each other nowhere: whatever the other
\* requests are doing, a request that has not been answered can take its
\* next step, and a request is rejected only by the failure of a command
\* of its own or by a check on its own input.
C9_NoMutualExclusion ==
  \A r \in Reqs :
    /\ req[r].pc = "idle" => ENABLED PostFortifai(r, OriginalInstance)
    /\ req[r].pc \notin {"idle", "badRequest", "resolved", "rejected"} =>
         ENABLED RelocateStep(r, TRUE)
    /\ req[r].pc = "rejected" => req[r].failedStep \in OwnFailures

\* C9 witness: two requests for the same instance, neither answered yet,
\* have each created an image and launched a replacement.
C9_Witness ==
  \A r \in Reqs :
    /\ req[r].instanceId = OriginalInstance
    /\ req[r].pc = "waitRunning"
    /\ ec2.images[r] # "none"
    /\ ec2.launched[r] # "none"

Answered(r) == req[r].pc \in {"badRequest", "resolved", "rejected"}

Polling(r) == req[r].pc \in {"waitStopped", "waitImage", "waitRunning"}

\* What the describe command of the loop request r is in reports now.
AwaitedStateReported(r) ==
  CASE req[r].pc = "waitStopped" -> ec2.state = "stopped"
    [] req[r].pc = "waitImage" -> ec2.images[r] = "available"
    [] req[r].pc = "waitRunning" -> ec2.launched[r] = "running"
    [] OTHER -> FALSE

\* C10: the polling loops have no timeout.  A loop is left only when its
\* describe command reports the awaited state or fails; a request that has
\* started is eventually answered unless its image failed, the one awaited
\* state that may never be reported; and a request waiting for an image
\* that failed waits forever unless a describe command fails.
C10_PollingLoops ==
  /\ [][\A r \in Reqs :
          Polling(r) /\ req'[r].pc # req[r].pc =>
            \/ AwaitedStateReported(r) /\ ~Polling(r)' /\ ~Answered(r)'
            \/ /\ req'[r].pc = "rejected"
               /\ req'[r].failedStep \in {"waitForInstanceState",
                                          "waitForImageAvailable"}]_vars
  /\ \A r \in Reqs :
       req[r].pc # "idle" ~> (Answered(r) \/ ec2.images[r] = "failed")
  /\ \A r \in Reqs :
       [](req[r].pc = "waitImage" /\ ec2.images[r] = "failed" =>
            [](\/ req[r].pc = "waitImage"
               \/ /\ req[r].pc = "rejected"
                  /\ req[r].failedStep = "waitForImageAvailable"))

\* C10 witness: one request was answered after a poll had found the awaited
\* state not reached, while another waits for an image that failed.
C10_Witness ==
  \E r, o \in Reqs :
    /\ req[r].pc = "resolved" /\ req[r].waited
    /\ req[o].pc = "waitImage" /\ req[o].waited /\ ec2.images[o] = "failed"

\* C11: POST /api/fortifai with a missing or empty instanceId answers 400
\* with an {error, details} body, never enters relocateEC2BetweenVPCs and
\* sends no EC2 command; a request with an instanceId is never answered 400.
C11_MissingInstanceId ==
  \A r \in Reqs :
    /\ req[r].pc # "idle" /\ ~Truthy(req[r].instanceId) =>
         /\ req[r].pc = "badRequest"
         /\ req[r].status = 400
         /\ req[r].bodyKeys = {"error", "details"}
         /\ req[r].sent = <<>>
    /\ req[r].status = 400 => ~Truthy(req[r].instanceId)

\* C11 witness: one request with an empty instanceId was answered 400 while
\* a request with an instanceId is sending EC2 commands.
C11_Witness ==
  \E r, o \in Reqs :
    /\ req[r].pc = "badRequest" /\ req[r].instanceId = ""
    /\ req[o].pc = "waitStopped" /\ ec2.state = "stopping"

\* C12: when the asset directory cannot be read, getGraphData rejects with
\* 'Failed to read asset directory' and every /api/graph route answers 500
\* with a body {error, details} that carries that message and no graph.
C12_DirectoryFailure ==
  gpc = "rejected" =>
    /\ gerr = "Failed to read asset directory"
    /\ allNodes = <<>> /\ graph = NoGraph
    /\ \A route \in GraphRoutes :
         /\ GraphResponse(route).status = 500
         /\ GraphResponse(route).keys = {"error", "details"}
         /\ GraphResponse(route).error = RouteError(route)
         /\ GraphResponse(route).details = "Failed to read asset directory"
         /\ GraphResponse(route).data = NoGraph

\* C12 witness: the directory read failed and the call rejected.
C12_Witness ==
  /\ gpc = "rejected" /\ gindex = 0
  /\ GraphResponse("POST /api/graph/refresh").status = 500

(***************************************************************************)
(* Claims about the front end's proxy route (specification ProxySpec).     *)
(***************************************************************************)

\* C13: a proxy request whose path is exactly 'token' is answered 200 with
\* the bearer token and no request to the gateway, whatever its method and
\* credentials; any other request with an array path makes exactly one
\* request to the gateway and is answered with the gateway's status, or
\* with 500 'Failed to proxy request' when the forwarding failed.
C13_ProxyTokenPath ==
  /\ px.fetches <= 1
  /\ px.pc = "answered" /\ px.path.given /\ px.path.array =>
       IF px.path.parts = <<"token">>
       THEN px.fetches = 0 /\ px.status = 200 /\ px.body = "development_token"
       ELSE /\ px.fetches = 1
            /\ px.failed => px.status = 500 /\ px.body = "Failed to proxy request"
            /\ ~px.failed => px.status = px.gatewayStatus
  /\ px.pc \in {"fetching", "reading"} =>
       px.fetches = 1 /\ px.path.parts # <<"token">>

\* C13 witness: a POST to the token path with credentials was answered
\* with the token.
C13_Witness ==
  /\ px.pc = "answered" /\ px.path.parts = <<"token">> /\ px.path.array
  /\ px.method = "POST" /\ px.authorization # Undef
  /\ px.status = 200 /\ px.fetches = 0

(***************************************************************************)
(* Claims about POST /api/graph/refresh (specification RefreshSpec).       *)
(***************************************************************************)

\* C14: the graph of a refresh response is built only from downloads that
\* began after the refresh cleared the cache: no read of the refresh
\* request's getGraphData returns records of a download that began before
\* its clearCache, whatever other reads are in flight.
C14_RefreshReadsFresh ==
  \A c \in Calls :
    refresh.mine[c] /\ calls[c].pc = "done" => ~refresh.servedOld[c]

(***************************************************************************)
(* Claims about POST /api/fortifai/ignore (specification IgnoreSpec).      *)
(***************************************************************************)

\* C15: POST /api/fortifai/ignore answers 400 unless instanceId is present
\* and ignore is a boolean; when it answers 200 with success: true the
\* IsIgnored value of the instance in storage is the requested one, and
\* the next graph read reports it for that instance.
C15_IgnoreUpdatesStatus ==
  ig.pc = "answered" =>
    /\ ig.status = 400 <=> (~Truthy(ig.instanceId) \/ ig.ignore.type # "boolean")
    /\ ig.status = 200 /\ ig.success =>
         /\ isIgnored[ig.instanceId] = ig.ignore.value
         /\ GraphIsIgnored(ig.instanceId) = ig.ignore.value

(***************************************************************************)
(* Claims about the routes that change the graph (GraphSpec).              *)
(***************************************************************************)

\* req.params.nodeId of DELETE /api/graph/nodes/:nodeId
NodeIdParams == {"a", "b"}

\* C16: the graph answered by DELETE /api/graph/nodes/:nodeId, and by a
\* later GET /api/graph, holds no node whose id is nodeId.
C16_DeleteRemovesNode ==
  gpc = "done" =>
    \A nodeId \in NodeIdParams :
      \A route \in {"DELETE /api/graph/nodes/:nodeId", "GET /api/graph"} :
        \A i \in 1..Len(GraphResponse(route).data.nodes) :
          GraphResponse(route).data.nodes[i].id # nodeId

(***************************************************************************)
(* ApiService.getGraphData.                                                *)
(***************************************************************************)

\* The fetchGraphData runs that have begun and have not settled.
RunsInProgress == {r \in RunIds : runs[r].pc \in {"auth", "assets", "delay"}}

\* The calls that hold the promise of run r.
HoldersOf(r) == {g \in AllGraphCallers : gc[g].pc # "idle" /\ gc[g].run = r}

\* A call begins in this step while a run is in progress.
CallsDuringRun(g) ==
  /\ gc[g].pc = "idle"
  /\ gc'[g].pc # "idle"
  /\ RunsInProgress # {}

\* C17: getGraphData de-duplicates in-flight fetches.  At most one
\* fetchGraphData run is in progress at a time, and fetchInProgress and
\* fetchPromise say which: they are false and null exactly when no run is
\* in progress, so also after a run settled, resolved or rejected.  A call
\* made while a run is in progress starts no run and holds the promise of
\* that run, and a call that holds the promise of a run resolves with the
\* graph of that run or rejects as that run rejects.
C17_InFlightDeduplicated ==
  /\ [](/\ Cardinality(RunsInProgress) <= 1
        /\ fetchInProgress = (RunsInProgress # {})
        /\ fetchPromise \in RunsInProgress \cup {0}
        /\ (fetchPromise = 0) = (RunsInProgress = {})
        /\ \A r \in RunIds : \A g \in HoldersOf(r) :
             /\ gc[g].pc = "waiting" => r \in RunsInProgress
             /\ gc[g].pc = "resolved" =>
                  runs[r].pc = "resolved" /\ gc[g].result.run = r
             /\ gc[g].pc = "rejected" => runs[r].pc = "rejected")
  /\ [][\A g \in AllGraphCallers :
          CallsDuringRun(g) =>
            /\ runs' = runs
            /\ gc'[g].run \in RunsInProgress
            /\ ~gc'[g].starter]_vars

\* One run has rejected, a call made during another run has resolved with
\* the graph of that run, and no run is in progress.
C17_Witness ==
  /\ \E g \in AllGraphCallers :
       gc[g].pc = "resolved" /\ gc[g].run # 0 /\ ~gc[g].starter
  /\ \E r \in RunIds : runs[r].pc = "rejected"
  /\ ~fetchInProgress /\ fetchPromise = 0

\* A fetch that succeeded, begun less than 5 minutes ago.
RecentSuccess ==
  {r \in RunIds : runs[r].pc = "resolved" /\ apiClock - runs[r].started < GRAPH_TTL}

\* The runs that have resolved.
Resolved == {r \in RunIds : runs[r].pc = "resolved"}

\* getGraphData is called for caller g in this step.
Called(g) == gc[g].pc = "idle" /\ gc'[g].pc # "idle"

\* This step sends no request: no activation of fetchWithAuth sends its
\* request or a token request, and no run begins or moves.
NoRequestSent ==
  /\ runs' = runs
  /\ \A c \in FwIds :
       /\ fw'[c].sends = fw[c].sends
       /\ fw'[c].pc \in {"auth", "reauth"} => fw'[c].pc = fw[c].pc

\* C18: a call of getGraphData returns the cached graph, sending no
\* request, if and only if some earlier fetch succeeded and began less
\* than 5 minutes before the call; the graph returned is then that of the
\* latest fetch that succeeded.  A fetch that fails changes neither the
\* cached graph nor its timestamp.
C18_CacheWindow ==
  /\ [][\A g \in AllGraphCallers :
          Called(g) =>
            /\ gc'[g].hit = (RecentSuccess # {})
            /\ gc'[g].hit =>
                 /\ NoRequestSent
                 /\ gc'[g].pc = "resolved"
                 /\ gc'[g].result.run \in Resolved
                 /\ \A r \in Resolved : r <= gc'[g].result.run]_vars
  /\ [][\A r \in RunIds :
          runs[r].pc # "rejected" /\ runs'[r].pc = "rejected" =>
            graphDataCache' = graphDataCache /\ lastFetchTime' = lastFetchTime]_vars

\* A call has returned the cached graph of a fetch begun one millisecond
\* less than 5 minutes before it, and a later fetch has failed.
C18_Witness ==
  /\ \E g \in AllGraphCallers :
       /\ gc[g].hit
       /\ gc[g].now - runs[gc[g].result.run].started = GRAPH_TTL - 1
  /\ \E r \in RunIds :
       runs[r].pc = "rejected" /\ graphDataCache.run # 0 /\ graphDataCache.run < r

(***************************************************************************)
(* ApiService.refreshGraphData.                                            *)
(***************************************************************************)

\* C19: the graph refreshGraphData resolves with comes from a
\* fetchGraphData run that began after the sync request of the refresh
\* had resolved.
C19_RefreshFetchesAfterSync ==
  gc[RefreshCaller].pc = "resolved" =>
    runs[gc[RefreshCaller].result.run].afterSync

(***************************************************************************)
(* ApiService.fetchWithAuth and authenticate.                              *)
(***************************************************************************)

\* The request of activation c is answered 401 or 403 in this step.
AnsweredUnauthorized(c) == fw[c].pc = "sent" /\ fw'[c].pc = "reauth"

\* The token request that followed a 401 or 403 is answered in this step.
ReauthAnswered(c) == fw[c].pc = "reauth" /\ fw'[c].pc # "reauth"

\* C20: when the request of a fetchWithAuth call is answered 401 or 403,
\* the stored token is dropped and a token request is made; when that
\* request yields a token, the token is stored and the request is sent
\* once more, to the same endpoint with the same options and with that
\* token as its bearer; when it fails, the call rejects and nothing more is
\* sent.
C20_ReauthenticateAndRetry ==
  [][\A c \in ClientFwIds :
       /\ AnsweredUnauthorized(c) =>
            /\ fw'[c].status \in {401, 403}
            /\ token' = Null
            /\ fw'[c].sends = fw[c].sends
       /\ ReauthAnswered(c) =>
            \/ /\ fw'[c].pc = "sent"
               /\ fw'[c].issued \in Tokens
               /\ token' = fw'[c].issued
               /\ fw'[c].authorization = "Bearer " \o fw'[c].issued
               /\ fw'[c].endpoint = fw[c].endpoint
               /\ fw'[c].method = fw[c].method
               /\ fw'[c].url = fw[c].url
               /\ fw'[c].sends = fw[c].sends + 1
            \/ /\ fw'[c].pc = "rejected"
               /\ fw'[c].sends = fw[c].sends
               /\ token' = token]_vars

\* One call has sent its request a second time after a 401 or 403, and
\* another has rejected because its token request failed.
C20_Witness ==
  /\ \E c \in ClientFwIds :
       fw[c].pc = "sent" /\ fw[c].rounds = 1 /\ fw[c].sends = 2
  /\ \E c \in ClientFwIds :
       fw[c].pc = "rejected" /\ fw[c].rounds = 1 /\ fw[c].sends = 1

(***************************************************************************)
(* createLinks: network interfaces.                                        *)
(***************************************************************************)

\* C21: every node made from asset type 'NI' whose metadata.VpcId equals
\* the metadata.VpcId of a VPC node has a link to the frame of that VPC.
C21_NetworkInterfaceLinked ==
  gpc = "done" =>
    \A v \in NodesOf({"VPC"}), n \in NodesOf({"NI"}) :
      n.VpcId = v.VpcId => HasLink(n.id, FrameId(v.id))

(***************************************************************************)
(* From the endpoint given to fetchWithAuth to the URL of the gateway.     *)
(***************************************************************************)

\* req.query.path of the proxy route for a request to url: the segments
\* after /api/proxy/.
RoutePath(url) == SubSeq(url, 4, Len(url))

\* The URL the proxy sends to the gateway for a request fetchWithAuth made
\* to url.
GatewayUrl(url) == TargetUrl(RoutePath(url))

\* The service and path an endpoint names: its segments without a leading
\* '/api/' and without a version segment after it.
ServicePath(endpoint) ==
  LET rest == StripApi(endpoint)
  IN  IF rest # <<>> /\ rest[1] = API_VERSION THEN Tail(rest) ELSE rest

\* C22: for every endpoint given to fetchWithAuth, the URL the proxy sends
\* to the gateway is '<gateway>/api/v1/<service>/<path>', where <service>
\* is the service the endpoint names and no version segment.
C22_VersionPrefixOnce ==
  \A c \in ClientFwIds :
    fw[c].sends > 0 =>
      LET service == SplitJoined(RoutePath(fw[c].url))[1]
          named == ServicePath(fw[c].endpoint)
      IN  /\ service # API_VERSION
          /\ GatewayUrl(fw[c].url) =
               "gateway" \o "/api/v1/" \o named[1] \o "/" \o Join(Tail(named))

(***************************************************************************)
(* fetchWithAuth of the ApiService with the isAuthenticating field.        *)
(***************************************************************************)

\* C23: every request fetchWithAuth has sent carries a token the token
\* endpoint issued as its bearer; none carries 'Bearer null'.
C23_BearerIssued ==
  \A c \in ClientFwIds :
    fw[c].sends > 0 =>
      /\ fw[c].authorization # "Bearer null"
      /\ \E t \in Tokens : fw[c].authorization = "Bearer " \o t

(***************************************************************************)
(* Termination of fetchWithAuth.                                           *)
(***************************************************************************)

\* C24: every fetchWithAuth call resolves or rejects in the end, whatever
\* the gateway answers to each request, 401 or 403 to every one included.
C24_CallSettles ==
  \A c \in ClientFwIds :
    (fw[c].pc \in {"auth", "sent", "reauth"})
      ~> (fw[c].pc \in {"resolved", "rejected"})

=============================================================================
